---- MODULE Spec2Model ----
(***************************************************************************)
(* Verification model of the Senatran fine-retrieval automation:          *)
(*   - CaptchaHandler.detect_captcha          (src/src/captcha_handler.py) *)
(*   - CaptchaHandler.wait_for_captcha_solution / handle_captcha           *)
(*   - AuthHandler.login and its helpers      (src/src/auth_handler.py)    *)
(*   - SenatranAutomation.run                 (src/src/main.py)            *)
(*   - the vehicle-list walker                (src/src/fine_scrapper.py)   *)
(* The browser is the environment: every probe of the page (URL, locator   *)
(* count, text) is an input chosen from a small set.                       *)
(***************************************************************************)
EXTENDS Integers, Sequences, FiniteSets, TLC

VARIABLES
    \* ---- detect_captcha -------------------------------------------------
    det_pc,        \* "idle" | "done"
    det_page,      \* set of DOM facts present on the page
    det_raises,    \* set of patterns whose probe raises
    det_bodyraises,\* page.inner_text('body') raises
    det_result,    \* the returned dictionary (detected, type)
    det_first,     \* what the first call on this page returned
    det_calls,     \* number of detect_captcha calls made on this page
    \* ---- AuthHandler._check_logged_in -----------------------------------
    chk_pc,        \* "idle" | "done"
    chk_url,       \* page.url read by the check
    chk_markers,   \* indices of LOGIN_SUCCESS_INDICATORS present on the page
    chk_entrar,    \* the 'Entrar com' control is on the page (count > 0)
    chk_raise,     \* 0, or the probe that raises (indicator i, or the control)
    chk_result,    \* the returned boolean
    \* ---- SenatranAutomation.run and AuthHandler.login -------------------
    mode,          \* "run" (main.py) | "test_login" (test_login.py)
    run_pc,        \* the statement run() / login() is at
    url,           \* page.url
    elapsed,       \* time.time() - start_time of the polling loop under way
    status_result, \* check_authentication_status(): "none" | "true" | "false"
    login_result,  \* AuthHandler.login(): "none" | "true" | "false"
    run_result,    \* run(): "none" | "true" | "false"
    is_authenticated,  \* AuthHandler.is_authenticated of the login handler
    probe_authenticated,  \* the same of the handler the status probe makes
    vehicles_started,  \* process_vehicles() has been called
    entrar_control,\* how the login control was found: "primary" | "fallback"
    cert_control,  \* how the certificate control was found, or "missing"
    home_loaded,   \* one of the three goto attempts on the home URL returned
    sso_seen,      \* the URL contained the SSO host after the login click
    cert_via,      \* why _handle_certificate_selection returned True
    challenge_seen,\* a polling tick detected a challenge
    left_portal,   \* a URL read after certificate selection was off the portal
    probe,         \* how the status probe ended: "none" | "raised" | "sso" | "list" | "elsewhere"
    login_called,  \* AuthHandler.login has been called
    fail_at,       \* the step login() returned False at, or "none"
    cert_result,   \* _handle_certificate_selection(): "none" | "true" | "false"
    cert_pass,     \* what the last pass of the certificate wait met
    fatal,         \* an exception ended process_vehicles early
    exit_code,     \* the code main() passed to sys.exit, or -1
    \* ---- process_all_vehicle_pages and the list it walks ----------------
    w_pc,          \* "idle" | "loop_head" | "vehicle" | "check_next" | "advance" | "done"
    page_number,   \* the walker's page counter
    page_loads,    \* passes through the head of the while loop
    w_items,       \* len(vehicle_items) of the page being processed
    w_idx,         \* idx of the vehicle being processed
    enumerated,    \* process_vehicle calls made so far
    seen,          \* the list positions process_vehicle was called for
    revisited,     \* process_vehicle was called twice for one list position
    w_result,      \* "none" | "returned" | "raised"
    faults,        \* the browser failed the walker at some step
    site_N,        \* total number of vehicles of the list
    site_page,     \* the page the list shows
    site_text,     \* the range text of br-pagination-table: "ok" | "unreadable"
    site_last_btn, \* the next control on the last page
    site_past_end, \* what a click on next does on the last page
    veh_outcome,   \* how the last process_vehicle call ended
    veh_backs,     \* go_back_to_vehicle_list calls of the last process_vehicle
    veh_opened,    \* the last process_vehicle call opened the detail page
    veh_verified,  \* the last process_vehicle call waited for the list again
    veh_nav,       \* the navigations the last process_vehicle call made to go back
    skips,         \* the detail waits and challenge checks that failed, by kind
    broken,        \* a step failed other than a detail wait or a challenge check
    adv_steps,     \* the steps of the last page advance, in order
    \* ---- get_vehicle_items ----------------------------------------------
    it_pc,         \* "idle" | "done"
    it_page,       \* the elements of the page, in document order
    it_xpath_raises,   \* the XPath locator raises
    it_css_raises, \* the CSS-structure locator raises
    it_path,       \* the selector that produced the result
    it_result,     \* the indices of the returned elements
    \* ---- the resolvers ---------------------------------------------------
    r_kind,        \* which resolver runs
    r_pc,          \* "idle" | "loop" | "done"
    r_max_wait,    \* the max_wait argument
    r_now,         \* time.time() - start_time
    r_last_url,    \* last_url
    r_result,      \* the returned boolean
    r_cleared,     \* some probe of the page showed the challenge gone
    r_probe,       \* what the last pass of the resolver read of the marker
    db_rows,       \* the rows of table fines, in rowid order
    db_prev,       \* the rows before the last upsert_fine call
    db_clock,      \* datetime.now()
    db_calls,      \* the upsert_fine calls made: the record and what was returned
    db_batch,      \* the argument of upsert_fines_batch, when it was the last call
    db_count,      \* what upsert_fines_batch returned, -1 when it was not the last call
    db_before,     \* the rows before that upsert_fines_batch call
    fx_pc,         \* FineExtractor: "idle", "ready" or "done"
    fx_path,       \* the extraction method that ran: "none", "row", "card" or "detail"
    fx_in,         \* what the page showed for the fine: headers and cells, texts found
    fx_out,        \* the fine record returned: produced, and the entries of the dict
    cap_pc,        \* check_and_handle_captcha_error / detect_and_solve_captcha: "idle", "ready" or "done"
    cap_op,        \* the function called: "none", "check" or "solve"
    cap_in,        \* the page, the configuration and what the solver service did
    cap_result,    \* the boolean returned
    cap_after,     \* what check_for_rate_limit_error finds after the call
    rl_pc,         \* handle_rate_limit: "idle", "loop" or "done"
    rl_max,        \* the max_retries argument
    rl_base,       \* the backoff_base argument
    rl_attempt,    \* passes of the for loop begun
    rl_calls,      \* retry_func calls made
    rl_completed,  \* retry_func calls that ran to completion
    rl_result,     \* "none", "true", "false", or "raised" when an exception left the function
    rl_backoff,    \* the last total_wait slept, in tenths of a second
    rl_reloads,    \* page.reload calls made
    lg_pc,         \* login's waits: "idle", "cert_loop", "redirect_loop", "resolver", "verify" or "done"
    lg_caller,     \* the loop that called the resolver in progress
    lg_elapsed,    \* time.time() - start_time of the loop in progress, in seconds
    lg_spin,       \* passes made since the clock last moved
    lg_result,     \* what login returned: "none", "true" or "false"
    sv_pc,         \* _wait_for_solution: "idle", "loop" or "done"
    sv_timeout,    \* the timeout argument, in seconds
    sv_interval,   \* the poll_interval argument, in seconds
    sv_now,        \* time.time() - start_time
    sv_polls,      \* polls of the solving service made
    sv_last,       \* the answer to the last poll
    sv_last_at,    \* sv_now when the last poll was sent
    sv_gap,        \* seconds between the last two polls (from start_time for the first)
    sv_result,     \* "none", "token" or "None"
    pv_pc,         \* process_vehicles: "idle", "start", "loop" or "done"
    pv_n,          \* len(vehicles)
    pv_done,       \* iterations of the for loop that have finished
    vehicles_processed, \* stats['vehicles_processed']
    vehicles_failed, \* stats['vehicles_failed']
    pv_errors,     \* len(stats['errors'])
    pv_last,       \* how the last iteration went
    pg_pc,         \* pagination of one page: "idle", "check", "navigate" or "done"
    pg_text,       \* the range text of br-pagination-table: "more", "last" or "unreadable"
    pg_controls,   \* the next-page controls on the page, in document order
    pg_check,      \* what check_for_next_page returned
    pg_clicked,    \* the control navigate_to_next_page clicked, 0 for none
    pg_raised,     \* navigate_to_next_page raised
    mn_pc,         \* per handle_request callback: "idle", "acquire", "sleep", "extra" or "done"
    mn_lock,       \* the callback holding request_lock, 0 when free
    request_count, \* the nonlocal request_count
    last_request_time, \* the nonlocal last_request_time
    last_extra_delay_count, \* the nonlocal last_extra_delay_count
    mn_now,        \* asyncio.get_event_loop().time(), in seconds
    mn_count,      \* current_count of each callback, 0 before it is set
    mn_wake,       \* when the asyncio.sleep of each callback ends
    mn_first,      \* last_request_time as first set for the latest request
    mn_min_gap     \* the least distance seen between the times of two consecutive requests

detVars ==
    <<det_pc, det_page, det_raises, det_bodyraises, det_result, det_first,
      det_calls>>

chkVars ==
    <<chk_pc, chk_url, chk_markers, chk_entrar, chk_raise, chk_result>>

authVars ==
    <<mode, run_pc, url, elapsed, status_result, login_result, run_result,
      is_authenticated, probe_authenticated, vehicles_started,
      entrar_control, cert_control,
      home_loaded, sso_seen, cert_via, challenge_seen, left_portal, probe,
      login_called, fail_at, cert_result, cert_pass, fatal, exit_code>>

walkVars ==
    <<w_pc, page_number, page_loads, w_items, w_idx, enumerated, seen,
      revisited, w_result, faults, site_N, site_page, site_text,
      site_last_btn, site_past_end, veh_outcome, veh_backs, veh_opened,
      veh_verified, veh_nav, skips, broken, adv_steps>>

itemVars ==
    <<it_pc, it_page, it_xpath_raises, it_css_raises, it_path, it_result>>

resVars ==
    <<r_kind, r_pc, r_max_wait, r_now, r_last_url, r_result, r_cleared,
      r_probe>>

dbVars ==
    <<db_rows, db_prev, db_clock, db_calls, db_batch, db_count, db_before>>

fxVars ==
    <<fx_pc, fx_path, fx_in, fx_out>>

capVars ==
    <<cap_pc, cap_op, cap_in, cap_result, cap_after>>

rlVars ==
    <<rl_pc, rl_max, rl_base, rl_attempt, rl_calls, rl_completed, rl_result, rl_backoff, rl_reloads>>

lgVars ==
    <<lg_pc, lg_caller, lg_elapsed, lg_spin, lg_result>>

svVars ==
    <<sv_pc, sv_timeout, sv_interval, sv_now, sv_polls,
      sv_last, sv_last_at, sv_gap, sv_result>>

pvVars ==
    <<pv_pc, pv_n, pv_done, vehicles_processed, vehicles_failed, pv_errors, pv_last>>

pgVars ==
    <<pg_pc, pg_text, pg_controls, pg_check, pg_clicked, pg_raised>>

mnVars ==
    <<mn_pc, mn_lock, request_count, last_request_time, last_extra_delay_count,
      mn_now, mn_count, mn_wake, mn_first, mn_min_gap>>

vars == <<detVars, chkVars, authVars, walkVars, itemVars, resVars,
      dbVars,
      fxVars,
      capVars,
      rlVars,
      lgVars,
      svVars,
      pvVars,
      pgVars,
      mnVars>>

\* the variables of the other components, which a component never touches
notDet == <<chkVars, authVars, walkVars, itemVars, resVars,
      dbVars,
      fxVars,
      capVars,
      rlVars,
      lgVars,
      svVars,
      pvVars,
      pgVars,
      mnVars>>

notChk == <<detVars, authVars, walkVars, itemVars, resVars,
      dbVars,
      fxVars,
      capVars,
      rlVars,
      lgVars,
      svVars,
      pvVars,
      pgVars,
      mnVars>>

notAuth == <<detVars, walkVars, itemVars, resVars,
      dbVars,
      fxVars,
      capVars,
      rlVars,
      lgVars,
      svVars,
      pvVars,
      pgVars,
      mnVars>>

notWalk == <<detVars, chkVars, authVars, itemVars, resVars,
      dbVars,
      fxVars,
      capVars,
      rlVars,
      lgVars,
      svVars,
      pvVars,
      pgVars,
      mnVars>>

notItems == <<detVars, chkVars, authVars, walkVars, resVars,
      dbVars,
      fxVars,
      capVars,
      rlVars,
      lgVars,
      svVars,
      pvVars,
      pgVars,
      mnVars>>

notRes == <<detVars, chkVars, authVars, walkVars, itemVars,
      dbVars,
      fxVars,
      capVars,
      rlVars,
      lgVars,
      svVars,
      pvVars,
      pgVars,
      mnVars>>

notDb ==
    <<detVars, chkVars, authVars, walkVars, itemVars, resVars,
      fxVars,
      capVars,
      rlVars,
      lgVars,
      svVars,
      pvVars,
      pgVars,
      mnVars>>

notFx ==
    <<detVars, chkVars, authVars, walkVars, itemVars, resVars, dbVars,
      capVars,
      rlVars,
      lgVars,
      svVars,
      pvVars,
      pgVars,
      mnVars>>

notCap ==
    <<detVars, chkVars, authVars, walkVars, itemVars, resVars, dbVars, fxVars,
      rlVars,
      lgVars,
      svVars,
      pvVars,
      pgVars,
      mnVars>>

notRl ==
    <<detVars, chkVars, authVars, walkVars, itemVars, resVars, dbVars, fxVars,
      capVars,
      lgVars,
      svVars,
      pvVars,
      pgVars,
      mnVars>>

notLg ==
    <<detVars, chkVars, authVars, walkVars, itemVars, resVars, dbVars, fxVars,
      capVars, rlVars,
      svVars,
      pvVars,
      pgVars,
      mnVars>>

\* the same without the resolvers, which login's waits call
notLgRes ==
    <<detVars, chkVars, authVars, walkVars, itemVars, dbVars, fxVars,
      capVars, rlVars,
      svVars,
      pvVars,
      pgVars,
      mnVars>>

notSv ==
    <<detVars, chkVars, authVars, walkVars, itemVars, resVars, dbVars, fxVars,
      capVars, rlVars, lgVars,
      pvVars,
      pgVars,
      mnVars>>

notPv ==
    <<detVars, chkVars, authVars, walkVars, itemVars, resVars, dbVars, fxVars,
      capVars, rlVars, lgVars, svVars,
      pgVars,
      mnVars>>

notPg ==
    <<detVars, chkVars, authVars, walkVars, itemVars, resVars, dbVars, fxVars,
      capVars, rlVars, lgVars, svVars, pvVars,
      mnVars>>

notMn ==
    <<detVars, chkVars, authVars, walkVars, itemVars, resVars, dbVars, fxVars,
      capVars, rlVars, lgVars, svVars, pvVars, pgVars>>

(***************************************************************************)
(* The state of each component before it is used.                          *)
(***************************************************************************)
DbIdle ==
    /\ db_rows = <<>>
    /\ db_prev = <<>>
    /\ db_clock = 0
    /\ db_calls = <<>>
    /\ db_batch = <<>>
    /\ db_count = -1
    /\ db_before = <<>>

\* a dict entry that is not there, or a text that was not found
Absent == "absent"

\* the dict keys of a fine record that the key 'renainf' depends on
FineKeys ==
    {"renainf", "numero_renainf", "numero_auto", "local_infracao",
     "valor_original"}

NoFineInput ==
    [headers |-> <<>>, cells |-> <<>>, textR |-> Absent, textA |-> Absent,
     textV |-> Absent, pairR |-> Absent, pairA |-> Absent]

NoFineRecord ==
    [produced |-> FALSE, data |-> [k \in FineKeys |-> Absent]]

FxIdle ==
    /\ fx_pc = "idle"
    /\ fx_path = "none"
    /\ fx_in = NoFineInput
    /\ fx_out = NoFineRecord

NoCaptchaInput ==
    [error |-> "none", widgets |-> {}, api_key |-> FALSE, enable |-> FALSE,
     solved |-> FALSE, solve_raises |-> FALSE, reload |-> "ok",
     error_after |-> FALSE, raises |-> FALSE]

CapIdle ==
    /\ cap_pc = "idle"
    /\ cap_op = "none"
    /\ cap_in = NoCaptchaInput
    /\ cap_result = FALSE
    /\ cap_after = "none"

RlIdle ==
    /\ rl_pc = "idle"
    /\ rl_max = 0
    /\ rl_base = 2
    /\ rl_attempt = 0
    /\ rl_calls = 0
    /\ rl_completed = 0
    /\ rl_result = "none"
    /\ rl_backoff = 0
    /\ rl_reloads = 0

LgIdle ==
    /\ lg_pc = "idle"
    /\ lg_caller = "none"
    /\ lg_elapsed = 0
    /\ lg_spin = 0
    /\ lg_result = "none"

SvIdle ==
    /\ sv_pc = "idle"
    /\ sv_timeout = 0
    /\ sv_interval = 1
    /\ sv_now = 0
    /\ sv_polls = 0
    /\ sv_last = "none"
    /\ sv_last_at = 0
    /\ sv_gap = 0
    /\ sv_result = "none"

PvIdle ==
    /\ pv_pc = "idle"
    /\ pv_n = 0
    /\ pv_done = 0
    /\ vehicles_processed = 0
    /\ vehicles_failed = 0
    /\ pv_errors = 0
    /\ pv_last = "none"

PgIdle ==
    /\ pg_pc = "idle"
    /\ pg_text = "unreadable"
    /\ pg_controls = <<>>
    /\ pg_check = FALSE
    /\ pg_clicked = 0
    /\ pg_raised = FALSE

MnIdle ==
    /\ mn_pc = <<>>
    /\ mn_lock = 0
    /\ request_count = 0
    /\ last_request_time = 0
    /\ last_extra_delay_count = 0
    /\ mn_now = 0
    /\ mn_count = <<>>
    /\ mn_wake = <<>>
    /\ mn_first = 0
    /\ mn_min_gap = 0

DetIdle ==
    /\ det_pc = "idle"
    /\ det_page = {}
    /\ det_raises = {}
    /\ det_bodyraises = FALSE
    /\ det_result = [detected |-> FALSE, type |-> "None"]
    /\ det_first = [detected |-> FALSE, type |-> "None"]
    /\ det_calls = 0

ChkIdle ==
    /\ chk_pc = "idle"
    /\ chk_url = "home"
    /\ chk_markers = {}
    /\ chk_entrar = TRUE
    /\ chk_raise = 0
    /\ chk_result = FALSE

AuthIdle ==
    /\ mode = "run"
    /\ run_pc = "idle"
    /\ url = "other"
    /\ elapsed = 0
    /\ status_result = "none"
    /\ login_result = "none"
    /\ run_result = "none"
    /\ is_authenticated = FALSE
    /\ probe_authenticated = FALSE
    /\ vehicles_started = FALSE
    /\ entrar_control = "none"
    /\ cert_control = "none"
    /\ home_loaded = FALSE
    /\ sso_seen = FALSE
    /\ cert_via = "none"
    /\ challenge_seen = FALSE
    /\ left_portal = FALSE
    /\ probe = "none"
    /\ login_called = FALSE
    /\ fail_at = "none"
    /\ cert_result = "none"
    /\ cert_pass = "none"
    /\ fatal = FALSE
    /\ exit_code = -1

WalkIdle ==
    /\ w_pc = "idle"
    /\ page_number = 1
    /\ page_loads = 0
    /\ w_items = 0
    /\ w_idx = 0
    /\ enumerated = 0
    /\ seen = {}
    /\ revisited = FALSE
    /\ w_result = "none"
    /\ faults = FALSE
    /\ site_N = 0
    /\ site_page = 1
    /\ site_text = "ok"
    /\ site_last_btn = "absent"
    /\ site_past_end = "stay"
    /\ veh_outcome = "none"
    /\ veh_backs = 0
    /\ veh_opened = FALSE
    /\ veh_verified = FALSE
    /\ veh_nav = <<>>
    /\ skips = {}
    /\ broken = FALSE
    /\ adv_steps = <<>>

ItemsIdle ==
    /\ it_pc = "idle"
    /\ it_page = <<>>
    /\ it_xpath_raises = FALSE
    /\ it_css_raises = FALSE
    /\ it_path = "none"
    /\ it_result = {}

ResIdle ==
    /\ r_kind = "none"
    /\ r_pc = "idle"
    /\ r_max_wait = 0
    /\ r_now = 0
    /\ r_last_url = "other"
    /\ r_result = FALSE
    /\ r_cleared = FALSE
    /\ r_probe = "none"

(***************************************************************************)
(* URLs.  A URL is one of a few representative addresses; the code only    *)
(* ever tests a URL for substrings, and each predicate below is one such   *)
(* substring test.                                                         *)
(*   home        https://portalservicos.senatran.serpro.gov.br/#/home      *)
(*   list        https://portalservicos.senatran.serpro.gov.br/#/infracoes/consultar/veiculo *)
(*   sso_login   https://sso.acesso.gov.br/login?client_id=...             *)
(*   sso_redir   https://sso.acesso.gov.br/login?redirect_uri=https://portalservicos.senatran... *)
(*   sso_other   https://sso.acesso.gov.br/authorize?...                   *)
(*   x509        https://certificado.acesso.gov.br/info/x509/...           *)
(*   x509_redir  https://certificado.acesso.gov.br/info/x509/?redirect_uri=https://portalservicos.senatran... *)
(*   other       about:blank, an error page, any third host                *)
(***************************************************************************)
Urls ==
    {"home", "list", "sso_login", "sso_redir", "sso_other", "x509",
     "x509_redir", "other"}

\* "sso.acesso.gov.br" in url
HasSso(u) ==
    u \in {"sso_login", "sso_redir", "sso_other"}

\* "sso.acesso.gov.br/login" in url
HasSsoLogin(u) ==
    u \in {"sso_login", "sso_redir"}

\* "portalservicos.senatran" in url
HasPortal(u) ==
    u \in {"home", "list", "sso_redir", "x509_redir"}

\* "acesso.gov.br/info/x509" in url
HasX509(u) ==
    u \in {"x509", "x509_redir"}

\* "acesso.gov.br" in url
HasAcesso(u) ==
    HasSso(u) \/ HasX509(u)

\* SENATRAN_VEHICLE_LIST_URL in url or "/infracoes/consultar/veiculo" in url
HasVehicleList(u) ==
    u = "list"

(***************************************************************************)
(* CaptchaHandler.detect_captcha                                           *)
(***************************************************************************)

\* DOM facts a page may show.  Widget facts are the reCAPTCHA/hCaptcha
\* elements, banner facts are the error texts.
WidgetFacts ==
    {"ifr_recaptcha", "ifr_hcaptcha", "cls_hcaptcha"}

BannerFacts ==
    {"txt_captcha_invalido", "txt_erl0033800"}

MarkerUniverse ==
    WidgetFacts \cup BannerFacts
        \cup {"img_alt_captcha", "id_captcha", "txt_verificacao_invalida"}

\* The facts each selector of CAPTCHA_PATTERNS matches.
MatchFacts(pattern) ==
    CASE pattern = "text=/recaptcha/i" -> {}
      [] pattern = "[class*=recaptcha]" -> {}
      [] pattern = "[id*=recaptcha]" -> {}
      [] pattern = "iframe[src*=recaptcha]" -> {"ifr_recaptcha"}
      [] pattern = "text=/hcaptcha/i" -> {}
      [] pattern = "[class*=hcaptcha]" -> {"cls_hcaptcha"}
      [] pattern = "[id*=hcaptcha]" -> {}
      [] pattern = "iframe[src*=hcaptcha]" -> {"ifr_hcaptcha"}
      [] pattern = "text=/captcha.*imagem|captcha.*image/i" -> {}
      [] pattern = "[class*=captcha-image]" -> {}
      [] pattern = "img[alt*=captcha]" -> {"img_alt_captcha"}
      [] pattern = "text=/captcha.*texto|captcha.*text/i" -> {}
      [] pattern = "[class*=captcha-text]" -> {}
      [] pattern = "text=/captcha.*invalido|captcha.*invalid|captcha/i" ->
             {"txt_captcha_invalido"}
      [] pattern = "[class*=captcha]" -> {"cls_hcaptcha"}
      [] pattern = "[id*=captcha]" -> {"id_captcha"}
      [] pattern = "text=/ERL0033800/i" -> {"txt_erl0033800"}
      [] pattern = "text=/erro.*captcha|error.*captcha/i" -> {}
      [] pattern = "text=/captcha.*invalido|captcha.*invalid/i" ->
             {"txt_captcha_invalido"}
      [] OTHER -> {}

\* The dictionary with a different key order: the banner types first.
CAPTCHA_PATTERNS_BannerFirst ==
    << [type |-> "generic_captcha",
        patterns |-> << "text=/captcha.*invalido|captcha.*invalid|captcha/i",
                        "[class*=captcha]", "[id*=captcha]" >>],
       [type |-> "error_message",
        patterns |-> << "text=/ERL0033800/i",
                        "text=/erro.*captcha|error.*captcha/i",
                        "text=/captcha.*invalido|captcha.*invalid/i" >>],
       [type |-> "reCAPTCHA",
        patterns |-> << "text=/recaptcha/i", "[class*=recaptcha]",
                        "[id*=recaptcha]", "iframe[src*=recaptcha]" >>],
       [type |-> "hCaptcha",
        patterns |-> << "text=/hcaptcha/i", "[class*=hcaptcha]",
                        "[id*=hcaptcha]", "iframe[src*=hcaptcha]" >>],
       [type |-> "image_captcha",
        patterns |-> << "text=/captcha.*imagem|captcha.*image/i",
                        "[class*=captcha-image]", "img[alt*=captcha]" >>],
       [type |-> "text_captcha",
        patterns |-> << "text=/captcha.*texto|captcha.*text/i",
                        "[class*=captcha-text]" >>] >>

\* The class attribute, in the insertion order Python iterates it.
CAPTCHA_PATTERNS ==
    << [type |-> "reCAPTCHA",
        patterns |-> << "text=/recaptcha/i", "[class*=recaptcha]",
                        "[id*=recaptcha]", "iframe[src*=recaptcha]" >>],
       [type |-> "hCaptcha",
        patterns |-> << "text=/hcaptcha/i", "[class*=hcaptcha]",
                        "[id*=hcaptcha]", "iframe[src*=hcaptcha]" >>],
       [type |-> "image_captcha",
        patterns |-> << "text=/captcha.*imagem|captcha.*image/i",
                        "[class*=captcha-image]", "img[alt*=captcha]" >>],
       [type |-> "text_captcha",
        patterns |-> << "text=/captcha.*texto|captcha.*text/i",
                        "[class*=captcha-text]" >>],
       [type |-> "generic_captcha",
        patterns |-> << "text=/captcha.*invalido|captcha.*invalid|captcha/i",
                        "[class*=captcha]", "[id*=captcha]" >>],
       [type |-> "error_message",
        patterns |-> << "text=/ERL0033800/i",
                        "text=/erro.*captcha|error.*captcha/i",
                        "text=/captcha.*invalido|captcha.*invalid/i" >>] >>

AllPatterns ==
    UNION { { CAPTCHA_PATTERNS[t].patterns[i] :
                i \in 1..Len(CAPTCHA_PATTERNS[t].patterns) } :
            t \in 1..Len(CAPTCHA_PATTERNS) }

\* elements.count() > 0 for the pattern, the probe not raising
ProbeMatches(pattern, page, raises) ==
    /\ pattern \notin raises
    /\ MatchFacts(pattern) \cap page # {}

NotDetected ==
    [detected |-> FALSE, type |-> "None"]

\* page_text holds one of the keywords captcha / recaptcha / hcaptcha /
\* verificacao, and 'invalido' or 'invalid'
BodyTextSignals(page) ==
    page \cap {"txt_captcha_invalido", "txt_verificacao_invalida"} # {}

\* the page-content pass that follows the pattern loops
ContentAnalysis(page, bodyraises) ==
    IF ~bodyraises /\ BodyTextSignals(page)
    THEN [detected |-> TRUE, type |-> "generic_captcha"]
    ELSE NotDetected

RECURSIVE ScanPatterns_StopAtRaise(_, _, _, _)
\* a scan that a raising probe ends
ScanPatterns_StopAtRaise(t, i, page, raises) ==
    IF t > Len(CAPTCHA_PATTERNS) THEN [found |-> FALSE, type |-> "None"]
    ELSE IF i > Len(CAPTCHA_PATTERNS[t].patterns)
         THEN ScanPatterns_StopAtRaise(t + 1, 1, page, raises)
    ELSE IF CAPTCHA_PATTERNS[t].patterns[i] \in raises
         THEN [found |-> FALSE, type |-> "None"]
    ELSE IF ProbeMatches(CAPTCHA_PATTERNS[t].patterns[i], page, raises)
         THEN [found |-> TRUE, type |-> CAPTCHA_PATTERNS[t].type]
    ELSE ScanPatterns_StopAtRaise(t, i + 1, page, raises)

RECURSIVE ScanPatterns(_, _, _, _)
\* the two nested for loops, from type t, pattern i on
ScanPatterns(t, i, page, raises) ==
    IF t > Len(CAPTCHA_PATTERNS) THEN [found |-> FALSE, type |-> "None"]
    ELSE IF i > Len(CAPTCHA_PATTERNS[t].patterns)
         THEN ScanPatterns(t + 1, 1, page, raises)
    ELSE IF ProbeMatches(CAPTCHA_PATTERNS[t].patterns[i], page, raises)
         THEN [found |-> TRUE, type |-> CAPTCHA_PATTERNS[t].type]
    ELSE ScanPatterns(t, i + 1, page, raises)

detect_captcha(page, raises, bodyraises) ==
    LET hit == ScanPatterns(1, 1, page, raises)
    IN  IF hit.found
        THEN [detected |-> TRUE, type |-> hit.type]
        ELSE ContentAnalysis(page, bodyraises)

\* at most this many single probes raise (or else all of them do)
MaxRaising == 1

RaisingSets ==
    { S \in SUBSET AllPatterns : Cardinality(S) <= MaxRaising }
        \cup {AllPatterns}

InitDetect ==
    /\ MnIdle
    /\ PgIdle
    /\ PvIdle
    /\ SvIdle
    /\ LgIdle
    /\ RlIdle
    /\ CapIdle
    /\ FxIdle
    /\ DbIdle
    /\ ChkIdle
    /\ AuthIdle
    /\ WalkIdle
    /\ ItemsIdle
    /\ ResIdle
    /\ det_pc = "idle"
    /\ det_page \in SUBSET MarkerUniverse
    /\ det_raises \in RaisingSets
    /\ det_bodyraises \in BOOLEAN
    /\ det_result = NotDetected
    /\ det_first = NotDetected
    /\ det_calls = 0

\* the first call on the page
Detect ==
    /\ det_pc = "idle"
    /\ det_result' = detect_captcha(det_page, det_raises, det_bodyraises)
    /\ det_first' = det_result'
    /\ det_calls' = 1
    /\ det_pc' = "done"
    /\ UNCHANGED <<det_page, det_raises, det_bodyraises, notDet>>

\* a further call on the unchanged page
DetectAgain ==
    /\ det_pc = "done"
    /\ det_calls = 1
    /\ det_result' = detect_captcha(det_page, det_raises, det_bodyraises)
    /\ det_calls' = 2
    /\ UNCHANGED <<det_pc, det_page, det_raises, det_bodyraises, det_first,
                   notDet>>

NextDetect ==
    \/ Detect
    \/ DetectAgain

SpecDetect ==
    InitDetect /\ [][NextDetect]_vars

\* positions (type index, pattern index) of CAPTCHA_PATTERNS
PatternPositions ==
    { <<t, i>> \in (1..Len(CAPTCHA_PATTERNS)) \X (1..4) :
          i <= Len(CAPTCHA_PATTERNS[t].patterns) }

Earlier(a, b) ==
    a[1] < b[1] \/ (a[1] = b[1] /\ a[2] < b[2])

MatchesAt(pos) ==
    ProbeMatches(CAPTCHA_PATTERNS[pos[1]].patterns[pos[2]], det_page, det_raises)

WidgetSelectors ==
    {"text=/recaptcha/i", "[class*=recaptcha]", "[id*=recaptcha]",
     "iframe[src*=recaptcha]", "text=/hcaptcha/i", "[class*=hcaptcha]",
     "[id*=hcaptcha]", "iframe[src*=hcaptcha]"}

BannerSelectors ==
    {"text=/captcha.*invalido|captcha.*invalid|captcha/i",
     "text=/ERL0033800/i", "text=/erro.*captcha|error.*captcha/i",
     "text=/captcha.*invalido|captcha.*invalid/i"}

WidgetAndBannerMatch ==
    /\ \E p \in WidgetSelectors : ProbeMatches(p, det_page, det_raises)
    /\ \E p \in BannerSelectors : ProbeMatches(p, det_page, det_raises)

\* C10: with a widget marker and a banner marker both matching, detect_captcha
\* returns one challenge, of a widget type (reCAPTCHA or hCaptcha); whenever a
\* pattern matches, the returned type is that of the first matching pattern in
\* CAPTCHA_PATTERNS order; and a second call on the same page returns the same.
C10_DetectorPriority ==
    det_pc = "done" =>
        /\ WidgetAndBannerMatch =>
              /\ det_result.detected
              /\ det_result.type \in {"reCAPTCHA", "hCaptcha"}
        /\ (\E pos \in PatternPositions : MatchesAt(pos)) =>
              \E pos \in PatternPositions :
                  /\ MatchesAt(pos)
                  /\ \A q \in PatternPositions : Earlier(q, pos) => ~MatchesAt(q)
                  /\ det_result = [detected |-> TRUE,
                                   type |-> CAPTCHA_PATTERNS[pos[1]].type]
        /\ det_calls = 2 => det_result = det_first

\* a page with an hCaptcha iframe and the ERL0033800 banner, detected twice
C10_Witness ==
    /\ det_pc = "done"
    /\ det_calls = 2
    /\ {"ifr_hcaptcha", "txt_erl0033800"} \subseteq det_page
    /\ WidgetAndBannerMatch
    /\ det_result.type = "hCaptcha"

\* the selector at a position, whether its probe raises, whether the page
\* has an element for it
PatternAt(pos) ==
    CAPTCHA_PATTERNS[pos[1]].patterns[pos[2]]

ProbeRaises(pos) ==
    PatternAt(pos) \in det_raises

PageShows(pos) ==
    MatchFacts(PatternAt(pos)) \cap det_page # {}

\* C25: detect_captcha skips a probe that raises and evaluates the next one:
\* the result is that of the first probe, in CAPTCHA_PATTERNS order, that
\* does not raise and finds an element; when no such probe exists the result
\* is that of the page-content pass, and when every probe raises, the
\* page-content read included, nothing is detected.
C25_ProbeFailureTolerated ==
    det_pc = "done" =>
        /\ \A pos \in PatternPositions :
              (/\ PageShows(pos) /\ ~ProbeRaises(pos)
               /\ \A q \in PatternPositions :
                      Earlier(q, pos) => (ProbeRaises(q) \/ ~PageShows(q))) =>
                  det_result = [detected |-> TRUE,
                                type |-> CAPTCHA_PATTERNS[pos[1]].type]
        /\ (\A pos \in PatternPositions : ProbeRaises(pos) \/ ~PageShows(pos)) =>
              det_result.detected = (~det_bodyraises /\ BodyTextSignals(det_page))
        /\ ((\A pos \in PatternPositions : ProbeRaises(pos)) /\ det_bodyraises) =>
              det_result = NotDetected

\* the probe of a selector the page has an element for raised, and a later
\* probe, of another type, gave the result
C25_Witness ==
    /\ det_pc = "done"
    /\ \E q \in PatternPositions, pos \in PatternPositions :
          /\ Earlier(q, pos)
          /\ PageShows(q) /\ ProbeRaises(q)
          /\ PageShows(pos) /\ ~ProbeRaises(pos)
          /\ CAPTCHA_PATTERNS[q[1]].type # CAPTCHA_PATTERNS[pos[1]].type
          /\ det_result = [detected |-> TRUE,
                           type |-> CAPTCHA_PATTERNS[pos[1]].type]

(***************************************************************************)
(* AuthHandler._check_logged_in                                            *)
(***************************************************************************)

\* number of selectors in LOGIN_SUCCESS_INDICATORS
NumIndicators == 2

\* the probe index of the 'Entrar com' control, after the indicators
EntrarProbe ==
    NumIndicators + 1

RECURSIVE ScanIndicators(_, _, _)
\* for indicator in LOGIN_SUCCESS_INDICATORS, from indicator i on:
\* "found", "raised" (the except clause) or "none"
ScanIndicators(i, markers, raise) ==
    IF i > NumIndicators THEN "none"
    ELSE IF raise = i THEN "raised"
    ELSE IF i \in markers THEN "found"
    ELSE ScanIndicators(i + 1, markers, raise)

\* a check that trusts the URL alone
check_logged_in_UrlOnly(current_url, markers, entrar, raise) ==
    ~HasSso(current_url) /\ HasPortal(current_url)

check_logged_in(current_url, markers, entrar, raise) ==
    IF HasSso(current_url) THEN FALSE
    ELSE IF ~HasPortal(current_url) THEN FALSE
    ELSE LET scan == ScanIndicators(1, markers, raise)
         IN  IF scan = "found" THEN TRUE
             ELSE IF scan = "raised" THEN FALSE
             ELSE IF raise = EntrarProbe THEN FALSE
             ELSE IF entrar THEN FALSE
             ELSE TRUE

InitLoggedIn ==
    /\ MnIdle
    /\ PgIdle
    /\ PvIdle
    /\ SvIdle
    /\ LgIdle
    /\ RlIdle
    /\ CapIdle
    /\ FxIdle
    /\ DbIdle
    /\ DetIdle
    /\ AuthIdle
    /\ WalkIdle
    /\ ItemsIdle
    /\ ResIdle
    /\ chk_pc = "idle"
    /\ chk_url \in Urls
    /\ chk_markers \in SUBSET (1..NumIndicators)
    /\ chk_entrar \in BOOLEAN
    /\ chk_raise \in 0..EntrarProbe
    /\ chk_result = FALSE

CheckLoggedIn ==
    /\ chk_pc = "idle"
    /\ chk_result' = check_logged_in(chk_url, chk_markers, chk_entrar, chk_raise)
    /\ chk_pc' = "done"
    /\ UNCHANGED <<chk_url, chk_markers, chk_entrar, chk_raise, notChk>>

NextLoggedIn ==
    CheckLoggedIn

SpecLoggedIn ==
    InitLoggedIn /\ [][NextLoggedIn]_vars

\* signal (a): some configured logged-in marker is present;
\* signal (b): the 'Entrar com' control is absent
LoggedInSignal ==
    chk_markers # {} \/ ~chk_entrar

SelectionTimeout == 2

\* DELAYS['authentication_timeout'], in ticks
AuthenticationTimeout == 2

\* the most ticks one resolver call takes before it returns
MaxResolve == 2

BoolStr(b) ==
    IF b THEN "true" ELSE "false"

\* the test of the portal-redirect loop put in the certificate-selection loop
BackOnPortal_NoAcesso(u) ==
    HasPortal(u) /\ ~HasSso(u) /\ ~HasAcesso(u)

\* the success test of the certificate-selection loop
BackOnPortal(u) ==
    HasPortal(u) /\ ~HasSso(u)

\* the same test with the second negation lost
RedirectDetected_Dropped(u) ==
    HasPortal(u) /\ HasSso(u)

\* the same test without its third clause
RedirectDetected_NoAcesso(u) ==
    HasPortal(u) /\ ~HasSso(u)

\* the success test of the portal-redirect loop
RedirectDetected(u) ==
    HasPortal(u) /\ ~HasSso(u) /\ ~HasAcesso(u)

\* run() going on to the vehicle list whatever authenticate() returned
AfterAuthenticate_Ignored(v) ==
    "nav_list"

\* run(): if not self.authenticate(): return False
AfterAuthenticate(v) ==
    IF v THEN "nav_list" ELSE "done"

\* where page.goto(SENATRAN_VEHICLE_LIST_URL) of the status probe ended
ProbeOutcome(raises, u) ==
    IF raises THEN "raised"
    ELSE IF HasSso(u) THEN "sso"
    ELSE IF HasVehicleList(u) THEN "list"
    ELSE "elsewhere"

exitHist ==
    <<fatal, exit_code>>

\* sys.exit(0 if success else 1)
ExitCode(success) ==
    IF success THEN 0 ELSE 1

\* a resolver that returned True taken for one that gave up
AfterResolver_Abort(ok) ==
    "return_false"

\* the certificate wait after its resolver returned ok: continue, or return False
AfterResolver(ok) ==
    IF ok THEN "continue" ELSE "return_false"

\* a loop that takes a new start_time when its resolver has returned
ElapsedAfterResolver_Restart(e, d) ==
    0

\* time.time() - start_time at the next test of a polling loop, after a
\* resolver call that took d: start_time is set once, before the loop
ElapsedAfterResolver(e, d) ==
    e + d

\* a login that marks the handler before its verification
AuthenticatedAfter_Early(was, res) ==
    TRUE

\* self.is_authenticated after Step 6: set only when _check_logged_in
\* returned True
AuthenticatedAfter(was, res) ==
    IF res THEN TRUE ELSE was

\* is_authenticated of the AuthHandler that check_authentication_status
\* makes when the probe lands on the portal off the vehicle list
ProbeHandlerFlag(raises, u, markers, entrar, raise) ==
    /\ ~raises
    /\ ~HasSso(u)
    /\ ~HasVehicleList(u)
    /\ HasPortal(u)
    /\ check_logged_in(u, markers, entrar, raise)

\* the status probe answering True whatever it found
AuthenticationStatus_Always(raises, u, markers, entrar, raise) ==
    TRUE

\* login() returns v to its caller: run() in main.py (a False makes run()
\* return False and main() exit), or test_authentication
LoginReturns(v) ==
    /\ login_result' = BoolStr(v)
    /\ fail_at' = IF v THEN fail_at ELSE run_pc
    /\ IF mode = "run"
       THEN /\ run_pc' = AfterAuthenticate(v)
            /\ run_result' =
                 IF AfterAuthenticate(v) = "done" THEN "false" ELSE run_result
            /\ exit_code' =
                 IF AfterAuthenticate(v) = "done" THEN ExitCode(FALSE)
                 ELSE exit_code
       ELSE /\ run_pc' = "done"
            /\ run_result' = BoolStr(v)
            /\ UNCHANGED exit_code

\* run() returns False (the finally clause runs cleanup) and main() exits
RunFails ==
    /\ run_pc' = "done"
    /\ run_result' = "false"
    /\ exit_code' = ExitCode(FALSE)

CertChallenges ==
    {"none", "erl", "captcha", "cert_not_found"}

RedirectChallenges ==
    {"none", "captcha", "cert_not_found"}

InitRun ==
    /\ MnIdle
    /\ PgIdle
    /\ PvIdle
    /\ SvIdle
    /\ LgIdle
    /\ RlIdle
    /\ CapIdle
    /\ FxIdle
    /\ DbIdle
    /\ DetIdle
    /\ ChkIdle
    /\ WalkIdle
    /\ ItemsIdle
    /\ ResIdle
    /\ mode \in {"run", "test_login"}
    /\ run_pc = IF mode = "run" THEN "initialize" ELSE "login_goto"
    /\ url = "other"
    /\ elapsed = 0
    /\ status_result = "none"
    /\ login_result = "none"
    /\ run_result = "none"
    /\ is_authenticated = FALSE
    /\ probe_authenticated = FALSE
    /\ vehicles_started = FALSE
    /\ entrar_control = "none"
    /\ cert_control = "none"
    /\ home_loaded = FALSE
    /\ sso_seen = FALSE
    /\ cert_via = "none"
    /\ challenge_seen = FALSE
    /\ left_portal = FALSE
    /\ probe = "none"
    /\ login_called = FALSE
    /\ fail_at = "none"
    /\ cert_result = "none"
    /\ cert_pass = "none"
    /\ fatal = FALSE
    /\ exit_code = -1

\* self.initialize(): an exception goes to run()'s except clause
Initialize ==
    /\ run_pc = "initialize"
    /\ \E ok \in BOOLEAN :
          IF ok THEN run_pc' = "check_status"
                     /\ UNCHANGED <<run_result, exit_code>>
          ELSE RunFails
    /\ UNCHANGED <<mode, url, elapsed, status_result, login_result,
                   is_authenticated,
                   probe_authenticated, vehicles_started, entrar_control,
                   cert_control, home_loaded, sso_seen, cert_via,
                   challenge_seen, left_portal, probe, login_called, fail_at,
                   cert_result, fatal, chkVars, cert_pass,
                   notAuth>>

\* what check_authentication_status returns on the URL u the probe lands on
AuthenticationStatus(raises, u, markers, entrar, raise) ==
    IF raises THEN FALSE
    ELSE IF HasSso(u) THEN FALSE
    ELSE IF HasVehicleList(u) THEN TRUE
    ELSE IF HasPortal(u) /\ check_logged_in(u, markers, entrar, raise) THEN TRUE
    ELSE FALSE

CheckAuthenticationStatus ==
    /\ run_pc = "check_status"
    /\ \E raises \in BOOLEAN, u \in Urls, markers \in SUBSET (1..NumIndicators),
          entrar \in BOOLEAN, raise \in 0..EntrarProbe :
          LET res == AuthenticationStatus(raises, u, markers, entrar, raise)
          IN  /\ url' = u
              /\ probe' = ProbeOutcome(raises, u)
              /\ status_result' = BoolStr(res)
              /\ probe_authenticated' =
                   ProbeHandlerFlag(raises, u, markers, entrar, raise)
              /\ run_pc' = IF res THEN "nav_list" ELSE "login_goto"
    /\ UNCHANGED <<mode, elapsed, login_result, run_result, is_authenticated,
                   vehicles_started, entrar_control, cert_control, home_loaded,
                   sso_seen, cert_via, challenge_seen, left_portal,
                   login_called, fail_at, cert_result, exitHist, chkVars,
                   cert_pass,
                   notAuth>>

\* Step 1: goto with "load", then "domcontentloaded", then without waiting;
\* an exception of the last attempt reaches login()'s except clause
LoginGoto ==
    /\ run_pc = "login_goto"
    /\ \E outcome \in {"load", "domcontentloaded", "bare", "raise"}, u \in Urls :
          /\ url' = u
          /\ login_called' = TRUE
          /\ IF outcome = "raise"
             THEN LoginReturns(FALSE) /\ UNCHANGED home_loaded
             ELSE /\ home_loaded' = TRUE
                  /\ run_pc' = "login_entrar"
                  /\ UNCHANGED <<login_result, run_result, fail_at, exit_code>>
    /\ UNCHANGED <<mode, elapsed, status_result, is_authenticated,
                   probe_authenticated,
                   vehicles_started, entrar_control, cert_control, sso_seen,
                   cert_via, challenge_seen, left_portal, probe, cert_result,
                   fatal, chkVars, cert_pass,
                   notAuth>>

\* Step 2: the 'Entrar com' control by its selector, else by the text "Entrar"
LoginClickEntrar ==
    /\ run_pc = "login_entrar"
    /\ \E primary \in BOOLEAN, fallback \in BOOLEAN, raises \in BOOLEAN :
          IF raises \/ (~primary /\ ~fallback)
          THEN LoginReturns(FALSE) /\ UNCHANGED entrar_control
          ELSE /\ entrar_control' = IF primary THEN "primary" ELSE "fallback"
               /\ run_pc' = "login_wait_sso"
               /\ UNCHANGED <<login_result, run_result, fail_at, exit_code>>
    /\ UNCHANGED <<mode, url, elapsed, status_result, is_authenticated,
                   probe_authenticated,
                   vehicles_started, cert_control, home_loaded, sso_seen,
                   cert_via, challenge_seen, left_portal, probe, login_called,
                   cert_result, fatal, chkVars, cert_pass,
                   notAuth>>

\* Step 3: wait_for_url for the SSO host; on its timeout the URL is read again
LoginWaitSso ==
    /\ run_pc = "login_wait_sso"
    /\ \E u \in Urls, raises \in BOOLEAN :
          /\ url' = u
          /\ IF raises \/ ~HasSso(u)
             THEN LoginReturns(FALSE) /\ UNCHANGED sso_seen
             ELSE /\ sso_seen' = TRUE
                  /\ run_pc' = "cert_find"
                  /\ UNCHANGED <<login_result, run_result, fail_at, exit_code>>
    /\ UNCHANGED <<mode, elapsed, status_result, is_authenticated,
                   probe_authenticated,
                   vehicles_started, entrar_control, cert_control, home_loaded,
                   cert_via, challenge_seen, left_portal, probe, login_called,
                   cert_result, fatal, chkVars, cert_pass,
                   notAuth>>

\* _handle_certificate_selection up to its polling loop: the control by id,
\* else by its text, else by "certificado"; not finding it is only logged.
\* An exception reaches the method's except clause, which returns False.
CertFind ==
    /\ run_pc = "cert_find"
    /\ \E found \in {"id", "text", "alt", "missing"}, raises \in BOOLEAN :
          IF raises
          THEN /\ LoginReturns(FALSE)
               /\ cert_result' = "false"
               /\ UNCHANGED <<cert_control, elapsed>>
          ELSE /\ cert_control' = found
               /\ run_pc' = "cert_poll"
               /\ elapsed' = 0
               /\ UNCHANGED <<login_result, run_result, fail_at, exit_code,
                              cert_result>>
    /\ UNCHANGED <<mode, url, status_result, is_authenticated,
                   probe_authenticated, vehicles_started,
                   entrar_control, home_loaded, sso_seen, cert_via,
                   challenge_seen, left_portal, probe, login_called,
                   fatal, chkVars, cert_pass,
                   notAuth>>

\* one pass of "while time.time() - start_time < timeout" of
\* _handle_certificate_selection, and what follows the loop once it ends
CertPollTick ==
    /\ run_pc = "cert_poll"
    /\ \E u \in Urls, ch \in CertChallenges, ok \in BOOLEAN, d \in 0..MaxResolve :
          /\ url' = u
          /\ IF elapsed >= SelectionTimeout
             THEN \* after the loop: final_url
                  IF ~HasSso(u)
                  THEN /\ cert_via' = IF HasX509(u) THEN "x509" ELSE "left_sso"
                       /\ cert_pass' = "timeout"
                       /\ cert_result' = "true"
                       /\ run_pc' = "redirect_poll"
                       /\ elapsed' = 0
                       /\ UNCHANGED <<login_result, run_result, fail_at, exit_code,
                                      challenge_seen>>
                  ELSE /\ LoginReturns(FALSE)
                       /\ cert_pass' = "timeout"
                       /\ cert_result' = "false"
                       /\ UNCHANGED <<cert_via, elapsed, challenge_seen>>
             ELSE IF BackOnPortal(u)
             THEN /\ cert_via' = "portal"
                  /\ cert_pass' = "redirect"
                  /\ cert_result' = "true"
                  /\ run_pc' = "redirect_poll"
                  /\ elapsed' = 0
                  /\ UNCHANGED <<login_result, run_result, fail_at, exit_code,
                                 challenge_seen>>
             ELSE /\ UNCHANGED cert_via
                  /\ IF ch \in {"erl", "captcha"}
                     THEN \* _wait_for_error_resolution / handle_captcha
                          /\ challenge_seen' = TRUE
                          /\ cert_pass' = IF ok THEN "resolved"
                                          ELSE "unresolved"
                          /\ IF AfterResolver(ok) = "continue"
                             THEN /\ elapsed' = ElapsedAfterResolver(elapsed, d)
                                  /\ UNCHANGED <<run_pc, login_result,
                                                 run_result, fail_at, exit_code,
                                                 cert_result>>
                             ELSE /\ LoginReturns(FALSE)
                                  /\ cert_result' = "false"
                                  /\ UNCHANGED elapsed
                     ELSE IF ch = "cert_not_found"
                     THEN /\ LoginReturns(FALSE)
                          /\ cert_pass' = "cert_not_found"
                          /\ cert_result' = "false"
                          /\ UNCHANGED <<elapsed, challenge_seen>>
                     ELSE \* time.sleep(1)
                          /\ elapsed' = elapsed + 1
                          /\ cert_pass' = "slept"
                          /\ UNCHANGED <<run_pc, login_result, run_result,
                                         fail_at, exit_code, cert_result,
                                         challenge_seen>>
    /\ UNCHANGED <<mode, status_result, is_authenticated,
                   probe_authenticated, vehicles_started,
                   entrar_control, cert_control, home_loaded, sso_seen,
                   left_portal, probe, login_called, fatal, chkVars,
                   notAuth>>

\* one pass of "while time.time() - start_time < max_wait_time" of login()
RedirectPollTick ==
    /\ run_pc = "redirect_poll"
    /\ \E u \in Urls, ch \in RedirectChallenges, ok \in BOOLEAN,
          d \in 0..MaxResolve :
          IF elapsed >= AuthenticationTimeout
          THEN \* not redirect_detected
               /\ LoginReturns(FALSE)
               /\ UNCHANGED <<url, elapsed, challenge_seen, left_portal>>
          ELSE /\ url' = u
               /\ left_portal' = (left_portal \/ u \notin {"home", "list"})
               /\ IF RedirectDetected(u)
                  THEN /\ run_pc' = "login_verify"
                       /\ UNCHANGED <<login_result, run_result, fail_at, exit_code,
                                      elapsed, challenge_seen>>
                  ELSE IF ~HasX509(u) /\ HasSso(u) /\ ch = "captcha"
                  THEN /\ challenge_seen' = TRUE
                       /\ IF ok
                          THEN /\ elapsed' = ElapsedAfterResolver(elapsed, d)
                               /\ UNCHANGED <<run_pc, login_result,
                                              run_result, fail_at, exit_code>>
                          ELSE LoginReturns(FALSE) /\ UNCHANGED elapsed
                  ELSE IF ~HasX509(u) /\ HasSso(u) /\ ch = "cert_not_found"
                  THEN /\ LoginReturns(FALSE)
                       /\ UNCHANGED <<elapsed, challenge_seen>>
                  ELSE \* time.sleep(1)
                       /\ elapsed' = elapsed + 1
                       /\ UNCHANGED <<run_pc, login_result, run_result,
                                      fail_at, exit_code, challenge_seen>>
    /\ UNCHANGED <<mode, status_result, is_authenticated,
                   probe_authenticated, vehicles_started,
                   entrar_control, cert_control, home_loaded, sso_seen,
                   cert_via, probe, login_called, cert_result, fatal, chk_pc,
                   chk_url, chk_markers, chk_entrar, chk_raise, chk_result,
                   cert_pass,
                   notAuth>>

\* Step 6: _check_logged_in on the page as it is after the page_load delay
LoginVerify ==
    /\ run_pc = "login_verify"
    /\ \E u \in Urls, markers \in SUBSET (1..NumIndicators),
          entrar \in BOOLEAN, raise \in 0..EntrarProbe :
          LET res == check_logged_in(u, markers, entrar, raise)
          IN  /\ url' = u
              /\ left_portal' = (left_portal \/ u \notin {"home", "list"})
              /\ chk_pc' = "done"
              /\ chk_url' = u
              /\ chk_markers' = markers
              /\ chk_entrar' = entrar
              /\ chk_raise' = raise
              /\ chk_result' = res
              /\ is_authenticated' = AuthenticatedAfter(is_authenticated, res)
              /\ LoginReturns(res)
    /\ UNCHANGED <<mode, elapsed, status_result, vehicles_started,
                   probe_authenticated,
                   entrar_control, cert_control, home_loaded, sso_seen,
                   cert_via, challenge_seen, probe, login_called, cert_result,
                   fatal, cert_pass,
                   notAuth>>

\* run(): go to the vehicle list unless the page is already on it
NavigateToList ==
    /\ run_pc = "nav_list"
    /\ \E current_url \in Urls, raises \in BOOLEAN, u \in Urls :
          IF HasVehicleList(current_url)
          THEN /\ url' = current_url
               /\ run_pc' = "process_vehicles"
               /\ UNCHANGED <<run_result, exit_code>>
          ELSE /\ url' = u
               /\ IF raises \/ HasSso(u)
                  THEN RunFails
                  ELSE run_pc' = "process_vehicles" /\ UNCHANGED <<run_result, exit_code>>
    /\ UNCHANGED <<mode, elapsed, status_result, login_result,
                   is_authenticated,
                   probe_authenticated, vehicles_started, entrar_control,
                   cert_control, home_loaded, sso_seen, cert_via,
                   challenge_seen, left_portal, probe, login_called, fail_at,
                   cert_result, fatal, chkVars, cert_pass,
                   notAuth>>

\* run(): stats = self.process_vehicles(); self.generate_report(stats);
\* process_vehicles catches the exception that ends it early and returns its
\* statistics; an exception of generate_report reaches run()'s except clause.
\* main(): success = automation.run(); sys.exit(0 if success else 1)
ProcessVehicles ==
    /\ run_pc = "process_vehicles"
    /\ vehicles_started' = TRUE
    /\ \E fatalExc \in BOOLEAN, reportRaises \in BOOLEAN :
          /\ fatal' = fatalExc
          /\ run_result' = BoolStr(~reportRaises)
          /\ exit_code' = ExitCode(~reportRaises)
          /\ run_pc' = "done"
    /\ UNCHANGED <<mode, url, elapsed, status_result, login_result,
                   is_authenticated,
                   probe_authenticated, entrar_control, cert_control, home_loaded,
                   sso_seen, cert_via, challenge_seen, left_portal, probe,
                   login_called, fail_at, cert_result, chkVars, cert_pass,
                   notAuth>>

NextRun ==
    \/ Initialize
    \/ CheckAuthenticationStatus
    \/ LoginGoto
    \/ LoginClickEntrar
    \/ LoginWaitSso
    \/ CertFind
    \/ CertPollTick
    \/ RedirectPollTick
    \/ LoginVerify
    \/ NavigateToList
    \/ ProcessVehicles

SpecRun ==
    InitRun /\ [][NextRun]_vars

\* C1: process_vehicles is started only after check_authentication_status or
\* login returned True; when login returned False, run() has returned False
\* and no vehicle was processed.
C1_AuthBeforeVehicles ==
    /\ (vehicles_started \/ run_pc = "process_vehicles") =>
           (status_result = "true" \/ login_result = "true")
    /\ (mode = "run" /\ login_result = "false") =>
           (~vehicles_started /\ run_pc = "done" /\ run_result = "false")

\* vehicles processed after a full login that followed a failed status probe
C1_Witness ==
    /\ mode = "run"
    /\ vehicles_started
    /\ status_result = "false"
    /\ login_result = "true"

\* C3: in the cold-login scenario (home page loaded, SSO host reached after
\* the login click, portal host reached inside the certificate-selection loop,
\* the URL staying on the portal from then on) login() does not return before
\* its terminal verification, and when that verification finds the login
\* control absent login() returns True with is_authenticated set.
C3_ColdLogin ==
    (/\ login_result # "none"
     /\ home_loaded
     /\ sso_seen
     /\ cert_via = "portal"
     /\ ~left_portal) =>
        /\ chk_pc = "done"
        /\ (~chk_entrar /\ chk_raise = 0) =>
               (login_result = "true" /\ is_authenticated)

\* the scenario run from test_login.py, with no marker and no challenge
C3_Witness ==
    /\ mode = "test_login"
    /\ run_pc = "done"
    /\ home_loaded
    /\ sso_seen
    /\ cert_via = "portal"
    /\ ~left_portal
    /\ ~challenge_seen
    /\ chk_pc = "done"
    /\ chk_markers = {}
    /\ ~chk_entrar
    /\ login_result = "true"
    /\ is_authenticated

\* C35: is_authenticated is False from construction on and is set only
\* right after _check_logged_in returned True: while login has not returned
\* and after it returned False the attribute is False, and login returns
\* True exactly when it set the attribute; the handler made by the status
\* probe is marked only when its own _check_logged_in returned True.
C35_AuthenticatedFlag ==
    /\ login_result \in {"none", "false"} => ~is_authenticated
    /\ login_result = "true" <=> is_authenticated
    /\ is_authenticated => (chk_pc = "done" /\ chk_result)
    /\ probe_authenticated => (status_result = "true" /\ probe = "elsewhere")
    /\ (login_result = "false" /\ chk_pc = "done") => ~chk_result

\* login returned False from its verification step
C35_Witness ==
    /\ login_result = "false"
    /\ chk_pc = "done"
    /\ ~chk_result
    /\ ~is_authenticated
    /\ home_loaded
    /\ sso_seen

\* C12: main() exits with code 0 only when the whole session succeeded; when
\* login returned False, or an exception ended process_vehicles early, the
\* exit code is 1.
C12_ExitCodes ==
    /\ exit_code = 0 =>
           /\ run_result = "true"
           /\ status_result = "true" \/ login_result = "true"
           /\ ~fatal
    /\ (exit_code # -1 /\ login_result = "false") => exit_code = 1
    /\ (exit_code # -1 /\ fatal) => exit_code = 1

\* C13: when the status probe reaches the vehicle-list URL with no redirect
\* to the SSO host, AuthHandler.login is never called in that run; when the
\* probe lands on the SSO host or raises, login is the next thing run() does.
C13_ShortCircuit ==
    /\ probe = "list" =>
           /\ status_result = "true"
           /\ ~login_called
           /\ login_result = "none"
           /\ run_pc \in {"nav_list", "process_vehicles", "done"}
    /\ probe \in {"sso", "raised"} =>
           /\ status_result = "false"
           /\ login_called \/ run_pc = "login_goto"

\* a run that ended with the vehicles processed and login never called
C13_Witness ==
    /\ mode = "run"
    /\ probe = "list"
    /\ vehicles_started
    /\ run_pc = "done"
    /\ ~login_called

\* the certificate wait sees the URL leave the SSO host: on the portal inside
\* the loop, or anywhere off the SSO host once selection_timeout is over
LeavesSso(u) ==
    \/ elapsed < SelectionTimeout /\ BackOnPortal(u)
    \/ elapsed >= SelectionTimeout /\ ~HasSso(u)

C18_Original ==
    [][(run_pc = "cert_poll" /\ HasX509(url) /\ cert_result' = "false") =>
          cert_pass' \in {"unresolved", "cert_not_found"}]_vars

\* C18: a pass of the certificate wait returns True, and login enters the
\* portal-redirect wait, exactly when it reads a URL on the portal host and
\* off the SSO host before selection_timeout is over, or a URL off the SSO
\* host (the certificate-info page included) once it is over; a
\* certificate-info URL read before that only keeps the wait polling, and the
\* pass fails only on a finding of its own.
C18_CertInfoSuccess ==
    [][run_pc = "cert_poll" =>
          /\ cert_result' = "true" <=>
                 \/ elapsed < SelectionTimeout
                    /\ HasPortal(url') /\ ~HasSso(url')
                 \/ elapsed >= SelectionTimeout /\ ~HasSso(url')
          /\ cert_result' = "true" =>
                 (run_pc' = "redirect_poll" /\ login_result' = "none")
          /\ (elapsed < SelectionTimeout /\ HasX509(url')
              /\ ~HasPortal(url')) =>
                 \/ run_pc' = "cert_poll" /\ cert_result' = "none"
                 \/ cert_pass' \in {"unresolved", "cert_not_found"}
          /\ (elapsed >= SelectionTimeout /\ HasX509(url')) =>
                 (cert_result' = "true" /\ cert_via' = "x509")]_vars

\* the wait ended by its timeout with the page on the certificate-info URL
C18_Witness ==
    /\ run_pc = "redirect_poll"
    /\ cert_via = "x509"
    /\ cert_pass = "timeout"
    /\ cert_result = "true"
    /\ url = "x509"
    /\ ~challenge_seen

\* C19: a pass of the portal-redirect wait detects the redirect, and login
\* goes on to its verification, exactly when authentication_timeout is not
\* over and the URL read is on the portal host and contains neither the SSO
\* host nor the host of the certificate-info page; when the timeout is over
\* without such a URL login returns False.
C19_RedirectDetection ==
    [][run_pc = "redirect_poll" =>
          /\ run_pc' = "login_verify" <=>
                 /\ elapsed < AuthenticationTimeout
                 /\ HasPortal(url') /\ ~HasSso(url') /\ ~HasAcesso(url')
          /\ elapsed >= AuthenticationTimeout =>
                 (login_result' = "false" /\ fail_at' = "redirect_poll")
          /\ login_result' # "true"]_vars

\* the redirect detected after the wait slept on the certificate-info page
C19_Witness ==
    /\ run_pc = "login_verify"
    /\ cert_via = "x509"
    /\ elapsed >= 1
    /\ url \in {"home", "list"}
    /\ login_result = "none"

\* a pass of a polling loop of the login on which a challenge is found for
\* the first time
FirstChallenge ==
    /\ run_pc \in {"cert_poll", "redirect_poll"}
    /\ ~challenge_seen
    /\ challenge_seen'

\* what C29 says of both loops: time never goes back while a loop polls, a
\* resolver that returned True leaves the loop polling, one that returned
\* False ends the login with False
ResolverInLoop ==
    /\ (run_pc \in {"cert_poll", "redirect_poll"} /\ run_pc' = run_pc) =>
           elapsed' >= elapsed
    /\ FirstChallenge =>
           \/ run_pc' = run_pc /\ login_result' = login_result
           \/ login_result' = "false"
    /\ (run_pc = "cert_poll" /\ cert_pass' = "resolved") =>
           (run_pc' = "cert_poll" /\ login_result' = login_result)
    /\ (run_pc = "cert_poll" /\ cert_pass' = "unresolved") =>
           login_result' = "false"
    /\ (run_pc = "redirect_poll" /\ elapsed >= AuthenticationTimeout) =>
           (login_result' = "false" /\ run_pc' # "login_verify")

\* C29 as stated: a resolver that returned True on a pass of the
\* certificate wait or of the redirect wait leaves the loop polling with its
\* start time kept, so that once the timeout of the loop is over no success
\* test is made; a resolver that returned False ends the login.
C29_Original ==
    [][/\ ResolverInLoop
       /\ (run_pc = "cert_poll" /\ elapsed >= SelectionTimeout) =>
              (cert_result' # "true" /\ run_pc' # "redirect_poll")]_vars

\* C29, amended: the same, except that once the timeout of the certificate
\* wait is over the URL is read once more, and the wait succeeds exactly
\* when that URL is off the SSO host.
C29_ResolverTimeCounts ==
    [][/\ ResolverInLoop
       /\ (run_pc = "cert_poll" /\ elapsed >= SelectionTimeout) =>
              /\ cert_pass' = "timeout"
              /\ cert_result' = BoolStr(~HasSso(url'))
              /\ IF HasSso(url') THEN login_result' = "false"
                 ELSE run_pc' = "redirect_poll"]_vars

\* the redirect wait past its timeout by the time a resolver took
C29_Witness ==
    /\ run_pc = "redirect_poll"
    /\ challenge_seen
    /\ elapsed > AuthenticationTimeout

(***************************************************************************)
(* The vehicle-list walker of fine_scrapper.py and the paginated list it   *)
(* walks.  The list has site_N vehicles, PageSize to a page.               *)
(***************************************************************************)

\* vehicles shown on one page of the list
PageSize == 2

\* the most vehicles a list holds
MaxItems == 4

\* the page counter is followed no further than this
MaxWalk == 11

\* "max_pages = 10  # Safety limit" of the pagination test tool
max_pages == 10

Min(a, b) ==
    IF a < b THEN a ELSE b

PageCount(n) ==
    (n + PageSize - 1) \div PageSize

ItemsOn(p, n) ==
    IF p > PageCount(n) THEN 0 ELSE Min(PageSize, n - (p - 1) * PageSize)

\* the numbers of "A-B de N" as the regular expression extracts them
PaginationText(p, n) ==
    [start |-> (p - 1) * PageSize + 1,
     end |-> Min(p * PageSize, n),
     total |-> n]

LastButtons ==
    {"absent", "disabled", "table", "generic"}

OnLastPage ==
    site_page >= PageCount(site_N)

\* the 'Proximo' button inside br-pagination-table, as strategy 2 sees it
TableButton ==
    IF ~OnLastPage THEN "enabled"
    ELSE IF site_last_btn = "table" THEN "enabled"
    ELSE IF site_last_btn = "disabled" THEN "disabled"
    ELSE "absent"

\* the first element any selector of strategy 3 finds that is not disabled
AnyButton ==
    IF ~OnLastPage THEN "enabled"
    ELSE IF site_last_btn \in {"table", "generic"} THEN "enabled"
    ELSE IF site_last_btn = "disabled" THEN "disabled"
    ELSE "absent"

\* check_for_next_page: strategy 1 answers only when end < total
check_for_next_page(readable, text, tableBtn, anyBtn) ==
    IF readable /\ text.end < text.total THEN TRUE
    ELSE IF tableBtn = "enabled" THEN TRUE
    ELSE anyBtn = "enabled"

\* what a click on the next control leads to
NextSitePage ==
    IF site_page < PageCount(site_N) THEN site_page + 1
    ELSE IF site_past_end = "empty" THEN PageCount(site_N) + 1
    ELSE site_page

\* go_back_to_vehicle_list: browser back worked | back failed and the direct
\* navigation to FINES_URL worked | both failed (the function raises)
GoBackOutcomes ==
    {"back", "direct", "raise"}

\* where a process_vehicle call goes
VehiclePaths ==
    {"click_raises", "challenge_unhandled", "solver_raises", "no_fines",
     "fines", "list_lost"}

\* the paths on which nothing failed but the detail wait (TimeoutError) or
\* the challenge check (error_handled False)
SkipKinds ==
    {"no_fines", "challenge_unhandled"}

\* the paths on which a call of the browser raised
BrokenPaths ==
    {"click_raises", "solver_raises", "list_lost"}

\* a go_back_to_vehicle_list that goes to FINES_URL whatever the back
\* action did
go_back_to_vehicle_list_GotoAlways(b) ==
    IF b = "back" THEN <<"back_ok", "goto_ok">>
    ELSE IF b = "direct" THEN <<"back_fail", "goto_ok">>
    ELSE <<"back_fail", "goto_fail">>

\* go_back_to_vehicle_list, as the navigations it makes:
\* human_like_back_navigation, then in its except clause
\* human_like_navigation(page, config.FINES_URL)
go_back_to_vehicle_list(b) ==
    IF b = "back" THEN <<"back_ok">>
    ELSE IF b = "direct" THEN <<"back_fail", "goto_ok">>
    ELSE <<"back_fail", "goto_fail">>

\* a process_vehicle that lets the timeout of the detail wait escape
process_vehicle_TimeoutRaises(path, b1, b2) ==
    IF path \in {"click_raises", "solver_raises", "no_fines"}
    THEN [outcome |-> "raised", backs |-> 1, opened |-> path # "click_raises",
          verified |-> FALSE, direct |-> b2 = "direct",
          nav |-> go_back_to_vehicle_list(b2)]
    ELSE [outcome |-> IF b1 = "raise" \/ path = "list_lost" THEN "raised"
                      ELSE IF path = "challenge_unhandled"
                      THEN "challenge_abort" ELSE path,
          backs |-> IF b1 = "raise" \/ path = "list_lost" THEN 2 ELSE 1,
          opened |-> TRUE, verified |-> FALSE, direct |-> b1 = "direct",
          nav |-> go_back_to_vehicle_list(b1)]

\* a process_vehicle that lets the walk go on only after fines were found
process_vehicle_AbortRaises(path, b1, b2) ==
    [outcome |-> IF path = "fines" /\ b1 # "raise" THEN "fines" ELSE "raised",
     backs |-> 1, opened |-> path # "click_raises",
     verified |-> path = "fines", direct |-> b1 = "direct",
     nav |-> go_back_to_vehicle_list(b1)]

\* process_vehicle on one path; b1 is what its go_back_to_vehicle_list call
\* does, b2 what the call of the except clause does
process_vehicle(path, b1, b2) ==
    IF path \in {"click_raises", "solver_raises"}
    THEN [outcome |-> "raised", backs |-> 1, opened |-> path # "click_raises",
          verified |-> FALSE, direct |-> b2 = "direct",
          nav |-> go_back_to_vehicle_list(b2)]
    ELSE IF b1 = "raise"
    THEN [outcome |-> "raised", backs |-> 2, opened |-> TRUE,
          verified |-> FALSE, direct |-> b2 = "direct",
          nav |-> go_back_to_vehicle_list(b1) \o go_back_to_vehicle_list(b2)]
    ELSE IF path = "list_lost"
    THEN [outcome |-> "raised", backs |-> 2, opened |-> TRUE,
          verified |-> FALSE, direct |-> (b1 = "direct" \/ b2 = "direct"),
          nav |-> go_back_to_vehicle_list(b1) \o go_back_to_vehicle_list(b2)]
    ELSE [outcome |-> IF path = "challenge_unhandled" THEN "challenge_abort"
                      ELSE path,
          backs |-> 1, opened |-> TRUE, verified |-> path = "fines",
          direct |-> b1 = "direct",
          nav |-> go_back_to_vehicle_list(b1)]

\* page.wait_for_load_state("load", timeout=...) of wait_for_page_ready
LoadStates ==
    {"loaded", "timeout"}

\* a wait_for_page_ready that lets the timeout of the load state escape
wait_for_page_ready_Strict(load) ==
    IF load = "loaded" THEN "ready" ELSE "wait_raised"

\* wait_for_page_ready: the except clause sleeps 1.5 s and returns
wait_for_page_ready(load) ==
    IF load = "loaded" THEN "ready" ELSE "settled"

\* the calls process_all_vehicle_pages makes between two passes of its
\* loop, up to the first that raises or breaks
AdvanceSteps(clickable, load, handled) ==
    IF ~clickable THEN <<"click_raised">>
    ELSE IF wait_for_page_ready(load) = "wait_raised"
    THEN <<"click", "wait_raised">>
    ELSE <<"click", wait_for_page_ready(load),
           IF handled THEN "handled" ELSE "unhandled">>

\* the walk ends: break / return, or an exception leaving the function
WalkEnds(how) ==
    /\ w_pc' = "done"
    /\ w_result' = how

InitWalk ==
    /\ MnIdle
    /\ PgIdle
    /\ PvIdle
    /\ SvIdle
    /\ LgIdle
    /\ RlIdle
    /\ CapIdle
    /\ FxIdle
    /\ DbIdle
    /\ DetIdle
    /\ ChkIdle
    /\ AuthIdle
    /\ ItemsIdle
    /\ ResIdle
    /\ w_pc = "loop_head"
    /\ page_number = 1
    /\ page_loads = 0
    /\ w_items = 0
    /\ w_idx = 0
    /\ enumerated = 0
    /\ seen = {}
    /\ revisited = FALSE
    /\ w_result = "none"
    /\ faults = FALSE
    /\ site_N \in 0..MaxItems
    /\ site_page = 1
    /\ site_text \in {"ok", "unreadable"}
    /\ site_last_btn \in LastButtons
    /\ site_past_end \in {"stay", "empty"}
    /\ veh_outcome = "none"
    /\ veh_backs = 0
    /\ veh_opened = FALSE
    /\ veh_verified = FALSE
    /\ veh_nav = <<>>
    /\ skips = {}
    /\ broken = FALSE
    /\ adv_steps = <<>>

\* head of "while True": wait for the list container, get_vehicle_items
LoopHead ==
    /\ w_pc = "loop_head"
    /\ page_loads' = page_loads + 1
    /\ \E found \in BOOLEAN, itemsRaise \in BOOLEAN :
          IF ~found
          THEN /\ WalkEnds("returned")
               /\ faults' = TRUE
               /\ broken' = TRUE
               /\ UNCHANGED <<w_items, w_idx>>
          ELSE IF itemsRaise
          THEN /\ WalkEnds("raised")
               /\ faults' = TRUE
               /\ broken' = TRUE
               /\ UNCHANGED <<w_items, w_idx>>
          ELSE /\ w_items' = ItemsOn(site_page, site_N)
               /\ UNCHANGED <<faults, broken>>
               /\ IF ItemsOn(site_page, site_N) = 0
                  THEN WalkEnds("returned") /\ UNCHANGED w_idx
                  ELSE w_pc' = "vehicle" /\ w_idx' = 1 /\ UNCHANGED w_result
    /\ UNCHANGED <<page_number, enumerated, seen, revisited, site_N, site_page,
                   site_text, site_last_btn, site_past_end, veh_outcome,
                   veh_backs, veh_opened, veh_verified, veh_nav, skips,
                   adv_steps, notWalk>>

\* one pass of "for idx, vehicle_item in enumerate(vehicle_items, 1)":
\* await process_vehicle(...), with nothing around it to catch what it raises
ProcessVehicle ==
    /\ w_pc = "vehicle"
    /\ \E path \in VehiclePaths, b1 \in GoBackOutcomes, b2 \in GoBackOutcomes :
          LET r == process_vehicle(path, b1, b2)
              pos == (site_page - 1) * PageSize + w_idx
          IN  /\ veh_outcome' = r.outcome
              /\ veh_backs' = r.backs
              /\ veh_opened' = r.opened
              /\ veh_verified' = r.verified
              /\ veh_nav' = r.nav
              /\ skips' = skips \cup ({path} \cap SkipKinds)
              /\ broken' = (broken \/ path \in BrokenPaths \/ b1 # "back")
              /\ enumerated' = enumerated + 1
              /\ revisited' = (revisited \/ pos \in seen)
              /\ seen' = seen \cup {pos}
              /\ faults' = (faults \/ path \notin {"fines", "no_fines"}
                                   \/ b1 # "back")
              /\ site_page' = IF r.direct THEN 1 ELSE site_page
              /\ IF r.outcome = "raised"
                 THEN WalkEnds("raised") /\ UNCHANGED w_idx
                 ELSE IF w_idx < w_items
                 THEN w_idx' = w_idx + 1 /\ UNCHANGED <<w_pc, w_result>>
                 ELSE w_pc' = "check_next" /\ UNCHANGED <<w_idx, w_result>>
    /\ UNCHANGED <<page_number, page_loads, w_items, site_N, site_text,
                   site_last_btn, site_past_end, adv_steps, notWalk>>

\* has_next_page = await check_for_next_page(page)
CheckNext ==
    /\ w_pc = "check_next"
    /\ IF check_for_next_page(site_text = "ok",
                              PaginationText(site_page, site_N),
                              TableButton, AnyButton)
       THEN w_pc' = "advance" /\ UNCHANGED w_result
       ELSE WalkEnds("returned")
    /\ UNCHANGED <<page_number, page_loads, w_items, w_idx, enumerated, seen,
                   revisited, faults, site_N, site_page, site_text,
                   site_last_btn, site_past_end, veh_outcome, veh_backs,
                   veh_opened, veh_verified, veh_nav, skips, broken,
                   adv_steps, notWalk>>

\* navigate_to_next_page, page_number += 1, wait_for_page_ready,
\* check_and_handle_captcha_error
Advance ==
    /\ w_pc = "advance"
    /\ page_number < MaxWalk
    /\ \E clickable \in BOOLEAN, load \in LoadStates, handled \in BOOLEAN :
          LET steps == AdvanceSteps(clickable, load, handled)
              last == steps[Len(steps)]
          IN  /\ adv_steps' = steps
              /\ IF ~clickable
                 THEN /\ WalkEnds("raised")
                      /\ faults' = TRUE
                      /\ broken' = TRUE
                      /\ UNCHANGED <<page_number, site_page>>
                 ELSE /\ site_page' = NextSitePage
                      /\ page_number' = page_number + 1
                      /\ IF last = "handled"
                         THEN /\ w_pc' = "loop_head"
                              /\ UNCHANGED <<w_result, faults, broken>>
                         ELSE /\ WalkEnds(IF last = "unhandled" THEN "returned"
                                          ELSE "raised")
                              /\ faults' = TRUE
                              /\ broken' = TRUE
    /\ UNCHANGED <<page_loads, w_items, w_idx, enumerated, seen, revisited,
                   site_N, site_text, site_last_btn, site_past_end,
                   veh_outcome, veh_backs, veh_opened, veh_verified, veh_nav,
                   skips, notWalk>>

NextWalk ==
    \/ LoopHead
    \/ ProcessVehicle
    \/ CheckNext
    \/ Advance

SpecWalk ==
    InitWalk /\ [][NextWalk]_vars

\* C4: a failure raised inside process_vehicle does not end the walk:
\* process_all_vehicle_pages never terminates with the exception of a
\* process_vehicle call.
C4_FailureDoesNotPropagate ==
    ~(w_pc = "done" /\ w_result = "raised" /\ veh_outcome = "raised")

\* C5: on a list whose range text is correct on every page, and with no
\* failure of the browser, the walk makes at most P+1 passes of its loop,
\* visits no vehicle twice, and ends by returning with N vehicles enumerated.
C5_PaginationTermination ==
    (site_text = "ok" /\ ~faults) =>
        /\ page_loads <= PageCount(site_N) + 1
        /\ ~revisited
        /\ (w_pc = "done" => (w_result = "returned" /\ enumerated = site_N))

\* C6: the walk never goes past the maximum-pages ceiling.
C6_MaxPagesCeiling ==
    page_number <= max_pages

\* C21: when process_vehicle has returned to the list (fines processed, no
\* fines found, challenge abort) and the walker is about to open the next
\* item of the page, the presence of the list container
\* app-infracao-veiculo-lista was verified after the return.
C21_ListVerifiedOnReturn ==
    (/\ w_pc = "vehicle"
     /\ w_idx > 1
     /\ veh_outcome \in {"fines", "no_fines", "challenge_abort"}) =>
        veh_verified

\* C22: when the fine block did not appear within the detail wait for some
\* vehicle, and no call of the browser failed, process_vehicle went back to
\* the list with one back action and returned normally, the walk is not
\* ended by an exception, and when it ends process_vehicle was called for
\* every vehicle of the list.
C22_NoDetailIsValid ==
    ("no_fines" \in skips /\ ~broken) =>
        /\ w_result # "raised"
        /\ veh_outcome # "raised"
        /\ veh_outcome = "no_fines" =>
               (veh_backs = 1 /\ veh_nav = <<"back_ok">> /\ veh_opened)
        /\ w_pc = "done" => (w_result = "returned" /\ seen = 1..site_N)

\* a walk that ended after a vehicle without fines, not the last one
C22_Witness ==
    /\ w_pc = "done"
    /\ w_result = "returned"
    /\ skips = {"no_fines"}
    /\ ~broken
    /\ veh_outcome = "fines"
    /\ site_N = MaxItems
    /\ seen = 1..site_N

\* C23: when the challenge check made right after opening a vehicle was not
\* handled, and no call of the browser failed, only that vehicle is given
\* up: process_vehicle made one back navigation and returned, the walk is
\* not ended by an exception, and when it ends process_vehicle was called
\* for every vehicle of the list.
C23_ChallengeAbortsItemOnly ==
    ("challenge_unhandled" \in skips /\ ~broken) =>
        /\ w_result # "raised"
        /\ veh_outcome # "raised"
        /\ veh_outcome = "challenge_abort" =>
               (veh_backs = 1 /\ Len(veh_nav) = 1 /\ ~veh_verified)
        /\ w_pc = "done" => (w_result = "returned" /\ seen = 1..site_N)

\* a walk that went on to the next vehicle after a challenge abort and ended
C23_Witness ==
    /\ w_pc = "done"
    /\ w_result = "returned"
    /\ skips = {"challenge_unhandled"}
    /\ ~broken
    /\ veh_outcome = "fines"
    /\ site_N >= 2
    /\ seen = 1..site_N

\* C24: each go_back_to_vehicle_list call tries the browser back action
\* first and goes to FINES_URL if and only if the back action failed; it is
\* called after the fines were processed and on the no-fines path.
C24_BackThenDirect ==
    /\ \A i \in 1..Len(veh_nav) :
          /\ veh_nav[i] \in {"goto_ok", "goto_fail"} =>
                 (i > 1 /\ veh_nav[i - 1] = "back_fail")
          /\ veh_nav[i] = "back_fail" =>
                 (i < Len(veh_nav) /\ veh_nav[i + 1] \in {"goto_ok", "goto_fail"})
          /\ veh_nav[i] = "back_ok" =>
                 (i = Len(veh_nav) \/ veh_nav[i + 1] \in {"back_ok", "back_fail"})
    /\ veh_outcome \in {"fines", "no_fines"} =>
           (veh_backs = 1 /\ veh_nav # <<>>)

\* process_vehicle returned after the back action failed and the direct
\* navigation to FINES_URL worked
C24_Witness ==
    /\ veh_outcome \in {"fines", "no_fines"}
    /\ veh_nav = <<"back_fail", "goto_ok">>

\* C31: a page advance is, in this order, the click on the next control,
\* the wait for the page, which does not raise, and the challenge check;
\* a page after the first is enumerated only after all three, the check
\* having returned True, and when the check returned False the walk has
\* ended and no further page is enumerated.
C31_AdvanceOrder ==
    /\ (adv_steps # <<>> /\ adv_steps[1] = "click") =>
           /\ Len(adv_steps) = 3
           /\ adv_steps[2] \in {"ready", "settled"}
           /\ adv_steps[3] \in {"handled", "unhandled"}
    /\ (w_pc # "done" /\ page_number > 1) =>
           (Len(adv_steps) = 3 /\ adv_steps[3] = "handled")
    /\ (Len(adv_steps) = 3 /\ adv_steps[3] = "unhandled") =>
           (w_pc = "done" /\ w_result = "returned" /\ page_loads < page_number)

\* the load state timed out during an advance and the second page is being
\* enumerated
C31_Witness ==
    /\ adv_steps = <<"click", "settled", "handled">>
    /\ w_pc = "vehicle"
    /\ page_number = 2

\* C37: one process_vehicle call goes back at most once, and only after
\* the detail page of the vehicle was opened.
C37_BackOnceAfterOpen ==
    /\ veh_backs <= 1
    /\ veh_backs >= 1 => veh_opened

\* C20: check_for_next_page is decided by the first strategy that gives a
\* signal: with the range text "A-B de N" readable the walker goes on to a
\* next page only when B < N, whatever the next buttons look like; with the
\* text unreadable it goes on only when a next button is found enabled.
C20_FirstStrategyWins ==
    w_pc = "advance" =>
        IF site_text = "ok"
        THEN PaginationText(site_page, site_N).end
                 < PaginationText(site_page, site_N).total
        ELSE TableButton = "enabled" \/ AnyButton = "enabled"

(***************************************************************************)
(* get_vehicle_items.  A page is the sequence of the div elements under    *)
(* app-infracao-veiculo-lista, each described by what the probes of the    *)
(* function read from it.                                                  *)
(***************************************************************************)

\* the most elements on a page
MaxElems == 2

\* cls: the class attribute is exactly card-list-item / only contains it / other
\* click: cursor pointer, an onclick handler only, or neither
\* long: len(text.strip()) > 10;  pag: the text has a pagination keyword
\* xp, css: the element is at the position the XPath / CSS fallback selects
\* raises: probing the element raises
Elements ==
    [cls : {"exact", "substr", "other"},
     click : {"none", "onclick", "pointer"},
     long : BOOLEAN,
     pag : BOOLEAN,
     xp : BOOLEAN,
     css : BOOLEAN,
     raises : BOOLEAN]

Pages ==
    UNION {[1..n -> Elements] : n \in 0..MaxElems}

\* is_clickable of the primary path
IsClickable(e) ==
    e.click # "none"

HasContent(e) ==
    e.long

IsPagination(e) ==
    e.pag

\* "card-list-item" in class_name
HasItemClass(e) ==
    e.cls \in {"exact", "substr"}

\* if is_clickable and has_content and not is_pagination
PrimaryValid(e) ==
    IsClickable(e) /\ HasContent(e) /\ ~IsPagination(e)

\* the indices div.card-list-item yields and the validation keeps
PrimaryItems(page) ==
    {i \in DOMAIN page :
        page[i].cls = "exact" /\ ~page[i].raises /\ PrimaryValid(page[i])}

\* the indices the XPath fallback keeps: only the class is looked at
XPathItems(page, xpRaises) ==
    IF xpRaises THEN {}
    ELSE {i \in DOMAIN page :
            page[i].xp /\ ~page[i].raises /\ HasItemClass(page[i])}

\* the indices the CSS fallback keeps: the class and a pointer cursor
CssItems(page) ==
    {i \in DOMAIN page :
        /\ page[i].css
        /\ ~page[i].raises
        /\ HasItemClass(page[i])
        /\ page[i].click = "pointer"}

\* the returned list (its indices, in document order) and the path taken
get_vehicle_items(page, xpRaises, cssRaises) ==
    IF PrimaryItems(page) # {}
    THEN [path |-> "primary", items |-> PrimaryItems(page)]
    ELSE IF XPathItems(page, xpRaises) # {}
    THEN [path |-> "xpath", items |-> XPathItems(page, xpRaises)]
    ELSE IF cssRaises
    THEN [path |-> "raised", items |-> {}]
    ELSE [path |-> "css", items |-> CssItems(page)]

InitItems ==
    /\ MnIdle
    /\ PgIdle
    /\ PvIdle
    /\ SvIdle
    /\ LgIdle
    /\ RlIdle
    /\ CapIdle
    /\ FxIdle
    /\ DbIdle
    /\ DetIdle
    /\ ChkIdle
    /\ AuthIdle
    /\ WalkIdle
    /\ ResIdle
    /\ it_pc = "idle"
    /\ it_page \in Pages
    /\ it_xpath_raises = FALSE
    /\ it_css_raises = FALSE
    /\ it_path = "none"
    /\ it_result = {}

GetVehicleItems ==
    /\ it_pc = "idle"
    /\ \E xpRaises \in BOOLEAN, cssRaises \in BOOLEAN :
          LET r == get_vehicle_items(it_page, xpRaises, cssRaises)
          IN  /\ it_xpath_raises' = xpRaises
              /\ it_css_raises' = cssRaises
              /\ it_path' = r.path
              /\ it_result' = r.items
    /\ it_pc' = "done"
    /\ UNCHANGED <<it_page, notItems>>

NextItems ==
    GetVehicleItems

SpecItems ==
    InitItems /\ [][NextItems]_vars

\* a vehicle card, and a pagination or control element that matches the
\* item selector
Genuine(e) ==
    e.cls = "exact" /\ e.click # "none" /\ e.long /\ ~e.pag /\ ~e.raises

Control(e) ==
    e.cls = "exact" /\ e.pag /\ ~e.raises

\* C7: every returned element is interactable, has more than 10 characters
\* of text and has no pagination keyword, whichever selector produced it.
C7_AllReturnedValid ==
    it_pc = "done" =>
        \A i \in it_result :
            /\ IsClickable(it_page[i])
            /\ HasContent(it_page[i])
            /\ ~IsPagination(it_page[i])

\* C8: on a page made of N genuine items and M controls matching the item
\* selector, exactly the N genuine items are returned.
C8_ExactlyGenuine ==
    (/\ it_pc = "done"
     /\ it_path # "raised"
     /\ ~it_xpath_raises
     /\ \A i \in DOMAIN it_page : Genuine(it_page[i]) \/ Control(it_page[i])) =>
        it_result = {i \in DOMAIN it_page : Genuine(it_page[i])}

(***************************************************************************)
(* The resolvers: CaptchaHandler.wait_for_captcha_solution, handle_captcha *)
(* and AuthHandler._wait_for_error_resolution.  Time is in seconds and     *)
(* passes only in time.sleep.                                              *)
(***************************************************************************)

\* the largest max_wait a resolver is called with
MaxWait == 5

\* check_interval: int = 2
check_interval == 2

\* time.sleep(2) before the detector is asked again
ConfirmDelay == 2

\* time.sleep(2) at the end of a pass of _wait_for_error_resolution
ErrorTick == 2

ResolverKinds ==
    {"captcha", "handle", "error"}

\* the loop test with the deadline moved two ticks back
LoopContinues_Late(now, max_wait) ==
    now < max_wait + 2 * check_interval

\* while time.time() - start_time < max_wait
LoopContinues(now, max_wait) ==
    now < max_wait

\* what a pass read of the marker: first is the probe of the pass, second
\* the probe made ConfirmDelay later when the first found nothing
MarkerReading(first, second) ==
    IF first THEN "present"
    ELSE IF second THEN "flicker"
    ELSE "absent_twice"

\* a pass of wait_for_captcha_solution that takes the first empty probe
\* for the answer
CaptchaPass_NoConfirm(last, u, d1, erl, d2, d3, raises) ==
    IF raises \/ erl \/ d2
    THEN [ret |-> FALSE, cost |-> check_interval, cleared |-> FALSE,
          probe |-> IF raises THEN "raised" ELSE IF erl THEN "erl"
                    ELSE "present"]
    ELSE [ret |-> TRUE, cost |-> 0, cleared |-> TRUE,
          probe |-> MarkerReading(d2, d3)]

\* One pass of the loop of wait_for_captcha_solution on URL u.
\* d1: detect_captcha after a URL change reports a challenge;
\* erl: the ERL0033800 banner with "invalid" is on the page;
\* d2, d3: the detector and its confirmation report a challenge;
\* raises: a probe inside the try block raises.
CaptchaPass(last, u, d1, erl, d2, d3, raises) ==
    LET away == u # last /\ ~HasSsoLogin(u)
        t1 == IF away THEN ConfirmDelay ELSE 0
    IN  IF away /\ ~d1
        THEN [ret |-> TRUE, cost |-> t1, cleared |-> TRUE, probe |-> "away"]
        ELSE IF raises
        THEN [ret |-> FALSE, cost |-> t1 + check_interval, cleared |-> FALSE,
              probe |-> "raised"]
        ELSE IF erl
        THEN [ret |-> FALSE, cost |-> t1 + check_interval, cleared |-> FALSE,
              probe |-> "erl"]
        ELSE IF ~d2 /\ ~d3
        THEN [ret |-> TRUE, cost |-> t1 + ConfirmDelay, cleared |-> TRUE,
              probe |-> MarkerReading(d2, d3)]
        ELSE IF BackOnPortal(u)
        THEN [ret |-> TRUE, cost |-> t1 + (IF d2 THEN 0 ELSE ConfirmDelay),
              cleared |-> TRUE, probe |-> MarkerReading(d2, d3)]
        ELSE [ret |-> FALSE,
              cost |-> t1 + (IF d2 THEN 0 ELSE ConfirmDelay) + check_interval,
              cleared |-> ~d2, probe |-> MarkerReading(d2, d3)]

\* One pass of the loop of _wait_for_error_resolution on URL u.
\* e1, e2: the ERL banner is on the page at the probe and at its confirmation
ErrorPass(last, u, e1, e2, raises) ==
    IF u # last /\ ~HasSsoLogin(u)
    THEN [ret |-> TRUE, cost |-> 0, cleared |-> TRUE, probe |-> "away"]
    ELSE IF raises
    THEN [ret |-> FALSE, cost |-> ErrorTick, cleared |-> FALSE,
          probe |-> "raised"]
    ELSE IF ~e1 /\ ~e2
    THEN [ret |-> TRUE, cost |-> ConfirmDelay, cleared |-> TRUE,
          probe |-> MarkerReading(e1, e2)]
    ELSE IF HasX509(u) \/ HasPortal(u)
    THEN [ret |-> TRUE, cost |-> IF e1 THEN 0 ELSE ConfirmDelay,
          cleared |-> TRUE, probe |-> MarkerReading(e1, e2)]
    ELSE [ret |-> FALSE,
          cost |-> (IF e1 THEN 0 ELSE ConfirmDelay) + ErrorTick,
          cleared |-> ~e1, probe |-> MarkerReading(e1, e2)]

InitResolve ==
    /\ MnIdle
    /\ PgIdle
    /\ PvIdle
    /\ SvIdle
    /\ LgIdle
    /\ RlIdle
    /\ CapIdle
    /\ FxIdle
    /\ DbIdle
    /\ DetIdle
    /\ ChkIdle
    /\ AuthIdle
    /\ WalkIdle
    /\ ItemsIdle
    /\ r_kind \in ResolverKinds
    /\ r_pc = "start"
    /\ r_max_wait \in 1..MaxWait
    /\ r_now = 0
    /\ r_last_url = "other"
    /\ r_result = FALSE
    /\ r_cleared = FALSE
    /\ r_probe = "none"

\* handle_captcha asks the detector first; every resolver then reads
\* start_time and last_url
StartResolver ==
    /\ r_pc = "start"
    /\ \E u \in Urls, detected \in BOOLEAN :
          IF r_kind = "handle" /\ ~detected
          THEN /\ r_pc' = "done"
               /\ r_result' = TRUE
               /\ r_cleared' = TRUE
               /\ UNCHANGED r_last_url
          ELSE /\ r_pc' = "loop"
               /\ r_last_url' = u
               /\ UNCHANGED <<r_result, r_cleared>>
    /\ UNCHANGED <<r_kind, r_max_wait, r_now, r_probe, notRes>>

\* the loop test and one pass of wait_for_captcha_solution
CaptchaTick ==
    /\ r_pc = "loop"
    /\ r_kind \in {"captcha", "handle"}
    /\ IF ~LoopContinues(r_now, r_max_wait)
       THEN /\ r_pc' = "done"
            /\ r_result' = FALSE
            /\ UNCHANGED <<r_now, r_last_url, r_cleared, r_probe>>
       ELSE \E u \in Urls, d1 \in BOOLEAN, erl \in BOOLEAN, d2 \in BOOLEAN,
               d3 \in BOOLEAN, raises \in BOOLEAN :
               LET p == CaptchaPass(r_last_url, u, d1, erl, d2, d3, raises)
               IN  /\ r_last_url' = u
                   /\ r_now' = r_now + p.cost
                   /\ r_cleared' = (r_cleared \/ p.cleared)
                   /\ r_probe' = p.probe
                   /\ r_result' = p.ret
                   /\ r_pc' = IF p.ret THEN "done" ELSE "loop"
    /\ UNCHANGED <<r_kind, r_max_wait, notRes>>

\* the loop test and one pass of _wait_for_error_resolution
ErrorResolutionTick ==
    /\ r_pc = "loop"
    /\ r_kind = "error"
    /\ IF ~LoopContinues(r_now, r_max_wait)
       THEN /\ r_pc' = "done"
            /\ r_result' = FALSE
            /\ UNCHANGED <<r_now, r_last_url, r_cleared, r_probe>>
       ELSE \E u \in Urls, e1 \in BOOLEAN, e2 \in BOOLEAN, raises \in BOOLEAN :
               LET p == ErrorPass(r_last_url, u, e1, e2, raises)
               IN  /\ r_last_url' = u
                   /\ r_now' = r_now + p.cost
                   /\ r_cleared' = (r_cleared \/ p.cleared)
                   /\ r_probe' = p.probe
                   /\ r_result' = p.ret
                   /\ r_pc' = IF p.ret THEN "done" ELSE "loop"
    /\ UNCHANGED <<r_kind, r_max_wait, notRes>>

NextResolve ==
    \/ StartResolver
    \/ CaptchaTick
    \/ ErrorResolutionTick

SpecResolve ==
    InitResolve /\ [][NextResolve]_vars

\* the tick of the resolver under way
TickOf(kind) ==
    IF kind = "error" THEN ErrorTick ELSE check_interval

UrlGround ==
    IF r_kind = "error" THEN HasX509(r_last_url) \/ HasPortal(r_last_url)
    ELSE BackOnPortal(r_last_url)

MaxCalls == 3

\* the longest list given to upsert_fines_batch
MaxBatch == 2

\* values of fine_data['renainf']
RenainfKeys ==
    {"R1", "R2"}

\* fine_data['renainf'] is None: SQLite stores NULL, which conflicts with no row
NullKey == "NULL"

\* fine_data has no 'renainf' entry
NoKey == "absent"

\* the values of the fourteen data columns, taken together
FineData ==
    {"d1", "d2"}

FineRecords ==
    [renainf : RenainfKeys \cup {NullKey, NoKey}, data : FineData]

NewRow(rec, now) ==
    [renainf |-> rec.renainf, data |-> rec.data, last_updated |-> now]

\* a plain INSERT that keeps the row already stored under the key
InsertOnly(rows, rec, now) ==
    Append(rows, NewRow(rec, now))

\* INSERT OR REPLACE: the row with the same primary key is deleted, then the
\* new row is inserted
InsertOrReplace(rows, rec, now) ==
    LET Kept(r) == rec.renainf = NullKey \/ r.renainf # rec.renainf
    IN  Append(SelectSeq(rows, Kept), NewRow(rec, now))

InitDb ==
    /\ MnIdle
    /\ PgIdle
    /\ PvIdle
    /\ SvIdle
    /\ LgIdle
    /\ RlIdle
    /\ CapIdle
    /\ FxIdle
    /\ DetIdle
    /\ ChkIdle
    /\ AuthIdle
    /\ WalkIdle
    /\ ItemsIdle
    /\ ResIdle
    /\ db_rows = <<>>
    /\ db_prev = <<>>
    /\ db_clock = 0
    /\ db_calls = <<>>
    /\ db_batch = <<>>
    /\ db_count = -1
    /\ db_before = <<>>

\* upsert_fine(fine_data): False without 'renainf'; on sqlite3.Error the
\* transaction is rolled back and False is returned
upsert_fine(rows, rec, dbError, now) ==
    IF rec.renainf = NoKey \/ dbError
    THEN [ok |-> FALSE, rows |-> rows]
    ELSE [ok |-> TRUE, rows |-> InsertOrReplace(rows, rec, now)]

\* the state one upsert_fine call of a batch leaves
AfterUpsert(st, rec, dbError, now) ==
    LET r == upsert_fine(st.rows, rec, dbError, now)
    IN  [rows |-> r.rows, prev |-> st.rows, clock |-> now,
         calls |-> Append(st.calls, [rec |-> rec, ok |-> r.ok, at |-> now]),
         count |-> st.count + (IF r.ok THEN 1 ELSE 0)]

RECURSIVE upsert_fines_batch_StopsAtFailure(_, _, _, _, _)
\* a batch that the first rejected record ends
upsert_fines_batch_StopsAtFailure(st, recs, errs, tick, i) ==
    IF i > Len(recs) THEN st
    ELSE LET next == AfterUpsert(st, recs[i], errs[i], st.clock + tick)
         IN  IF next.count = st.count THEN next
             ELSE upsert_fines_batch_StopsAtFailure(next, recs, errs, tick, i + 1)

RECURSIVE upsert_fines_batch(_, _, _, _, _)
\* upsert_fines_batch(fines_data), from record i on: errs[i] is whether the
\* database fails on record i, tick how far the clock moves between records
upsert_fines_batch(st, recs, errs, tick, i) ==
    IF i > Len(recs) THEN st
    ELSE upsert_fines_batch(
             AfterUpsert(st, recs[i], errs[i], st.clock + tick),
             recs, errs, tick, i + 1)

\* the lists of at most n records
Batches(n) ==
    UNION { [1..k -> FineRecords] : k \in 0..n }

UpsertFine ==
    /\ Len(db_calls) < MaxCalls
    /\ \E rec \in FineRecords, dbError \in BOOLEAN, tick \in 0..1 :
          LET now == db_clock + tick
              r == upsert_fine(db_rows, rec, dbError, now)
          IN  /\ db_clock' = now
              /\ db_prev' = db_rows
              /\ db_rows' = r.rows
              /\ db_calls' = Append(db_calls,
                                    [rec |-> rec, ok |-> r.ok, at |-> now])
    /\ db_batch' = <<>>
    /\ db_count' = -1
    /\ db_before' = <<>>
    /\ UNCHANGED notDb

UpsertFinesBatch ==
    /\ \E recs \in Batches(Min(MaxBatch, MaxCalls - Len(db_calls))) :
       \E errs \in [1..Len(recs) -> BOOLEAN], tick \in 0..1 :
          LET st == upsert_fines_batch(
                        [rows |-> db_rows, prev |-> db_prev,
                         clock |-> db_clock, calls |-> db_calls, count |-> 0],
                        recs, errs, tick, 1)
          IN  /\ db_rows' = st.rows
              /\ db_prev' = st.prev
              /\ db_clock' = st.clock
              /\ db_calls' = st.calls
              /\ db_count' = st.count
              /\ db_batch' = recs
    /\ db_before' = db_rows
    /\ UNCHANGED notDb

NextDb ==
    \/ UpsertFine
    \/ UpsertFinesBatch

SpecDb ==
    InitDb /\ [][NextDb]_vars

RowsOf(rows, k) ==
    LET Has(r) == r.renainf = k IN SelectSeq(rows, Has)

RowsNotOf(rows, k) ==
    LET Other(r) == r.renainf # k IN SelectSeq(rows, Other)

\* the last two calls stored the same record under a renainf string
SameRecordTwice ==
    /\ Len(db_calls) >= 2
    /\ db_calls[Len(db_calls)].rec = db_calls[Len(db_calls) - 1].rec
    /\ db_calls[Len(db_calls)].ok
    /\ db_calls[Len(db_calls) - 1].ok
    /\ db_calls[Len(db_calls)].rec.renainf \in RenainfKeys

\* C11: after upsert_fine has stored the same record twice there is exactly
\* one row under its renainf, with the record's key and data as after the
\* first call and last_updated set by the second call; the rows under other
\* keys are as they were.
C11_IdempotentUpsert ==
    SameRecordTwice =>
        LET last == db_calls[Len(db_calls)]
            k == last.rec.renainf
        IN  /\ Len(RowsOf(db_rows, k)) = 1
            /\ RowsOf(db_rows, k)[1].renainf = k
            /\ RowsOf(db_rows, k)[1].data = last.rec.data
            /\ RowsOf(db_rows, k)[1].last_updated = last.at
            /\ Len(RowsOf(db_prev, k)) = 1
            /\ RowsOf(db_prev, k)[1].data = last.rec.data
            /\ RowsNotOf(db_rows, k) = RowsNotOf(db_prev, k)

\* the same record stored twice, at two clock values, beside another row
C11_Witness ==
    /\ SameRecordTwice
    /\ Len(db_calls) = 3
    /\ db_calls[1].ok
    /\ db_calls[1].rec.renainf \in RenainfKeys
    /\ db_calls[1].rec.renainf # db_calls[3].rec.renainf
    /\ db_calls[3].at > db_calls[2].at
    /\ Len(db_rows) = 2

RECURSIVE StoredAfter(_, _, _)
\* the rows once the calls from index i on that returned True are stored
StoredAfter(rows, calls, i) ==
    IF i > Len(calls) THEN rows
    ELSE StoredAfter(IF calls[i].ok
                     THEN InsertOrReplace(rows, calls[i].rec, calls[i].at)
                     ELSE rows,
                     calls, i + 1)

\* C28: upsert_fines_batch calls upsert_fine for every record of the list,
\* in order, and returns the number of calls that returned True; a record
\* without 'renainf' gets False and leaves the table as it was, and the
\* records after it are still written.
C28_BatchCount ==
    db_count >= 0 =>
        LET n == Len(db_batch)
            base == Len(db_calls) - n
        IN  /\ base >= 0
            /\ \A i \in 1..n :
                  /\ db_calls[base + i].rec = db_batch[i]
                  /\ db_batch[i].renainf = NoKey => ~db_calls[base + i].ok
            /\ db_count = Cardinality({i \in 1..n : db_calls[base + i].ok})
            /\ db_rows = StoredAfter(db_before, db_calls, base + 1)
            /\ \A i \in 1..Len(db_rows) : db_rows[i].renainf # NoKey

\* a batch whose first record has no 'renainf': the second was written,
\* beside the row that was there
C28_Witness ==
    /\ db_count = 1
    /\ Len(db_batch) = MaxBatch
    /\ db_batch[1].renainf = NoKey
    /\ db_batch[MaxBatch].renainf \in RenainfKeys
    /\ Len(db_before) = 1
    /\ Len(db_rows) = 2

(***************************************************************************)
(* FineExtractor: _parse_fine_row, _parse_fine_card and                    *)
(* _extract_from_detail_view.  Texts are written without accents.          *)
(***************************************************************************)

\* the most columns of a fines table
MaxCols == 2

\* FIELD_MAPPINGS in dict order: the field and the words of its label
FIELD_MAPPINGS ==
    << [field |-> "orgao_autuador", words |-> {"orgao", "autuador"}],
       [field |-> "orgao_competente",
        words |-> {"orgao", "competente/responsavel"}],
       [field |-> "local_infracao", words |-> {"local", "da", "infracao"}],
       [field |-> "data_hora_cometimento",
        words |-> {"data/hora", "do", "cometimento", "da", "infracao"}],
       [field |-> "numero_auto",
        words |-> {"numero", "do", "auto", "de", "infracao"}],
       [field |-> "codigo_infracao", words |-> {"codigo", "da", "infracao"}],
       [field |-> "numero_renainf", words |-> {"numero", "renainf"}],
       [field |-> "valor_original", words |-> {"valor", "original"}],
       [field |-> "data_notificacao_autuacao",
        words |-> {"data", "da", "notificacao", "de", "autuacao"}],
       [field |-> "data_limite_defesa_previa",
        words |-> {"data", "limite", "para", "interposicao", "de", "defesa",
                   "previa"}],
       [field |-> "data_limite_identificacao_condutor",
        words |-> {"data", "limite", "para", "identificacao", "do",
                   "condutor", "infrator"}],
       [field |-> "data_notificacao_penalidade",
        words |-> {"data", "da", "notificacao", "de", "penalidade"}],
       [field |-> "data_limite_recurso",
        words |-> {"data", "limite", "para", "interposicao", "de", "recurso"}],
       [field |-> "data_vencimento_desconto",
        words |-> {"data", "do", "vencimento", "desconto"}] >>

\* the column headers a fines table may carry
RenainfHeaders ==
    {"RENAINF", "Numero RENAINF"}

AutoHeaders ==
    {"Auto", "Numero do Auto de Infracao"}

Headers ==
    RenainfHeaders \cup AutoHeaders \cup {"Valor Original", "Placa"}

\* the label words that are substrings of header.lower()
WordsIn(header) ==
    CASE header = "RENAINF" -> {"renainf"}
      [] header = "Numero RENAINF" -> {"numero", "renainf"}
      [] header = "Auto" -> {"auto"}
      [] header = "Numero do Auto de Infracao" ->
             {"numero", "do", "auto", "de", "infracao"}
      [] header = "Valor Original" -> {"valor", "original"}
      [] OTHER -> {}

\* pt_field.lower() in header_lower or any(word in header_lower ...)
Matches(i, header) ==
    FIELD_MAPPINGS[i].words \cap WordsIn(header) # {}

\* the en_field of the first mapping that matches the header, or Absent
MappedField(header) ==
    IF \E i \in 1..Len(FIELD_MAPPINGS) : Matches(i, header)
    THEN LET first == CHOOSE i \in 1..Len(FIELD_MAPPINGS) :
                        /\ Matches(i, header)
                        /\ \A j \in 1..(i - 1) : ~Matches(j, header)
         IN  FIELD_MAPPINGS[first].field
    ELSE Absent

\* the texts of a cell, of a value element: "" is the empty text
CellValues ==
    {"", "v1", "v2"}

\* what _extract_field_value returns: None, or a text that is not empty
FoundValues ==
    {Absent, "v1", "v2"}

\* fine_data[key] = value, for the keys followed
SetKey(data, key, value) ==
    IF key \in FineKeys THEN [data EXCEPT ![key] = value] ELSE data

\* Python truthiness of fine_data.get(key)
Truthy(v) ==
    v # Absent /\ v # ""

\* fine_data.get('numero_renainf') or fine_data.get('numero_auto', 'UNKNOWN')
FallbackKey(data) ==
    IF Truthy(data["numero_renainf"]) THEN data["numero_renainf"]
    ELSE IF data["numero_auto"] # Absent THEN data["numero_auto"]
    ELSE "UNKNOWN"

\* the fallback taken only when no RENAINF text was stored at all
EnsureRenainf(data) ==
    IF data["renainf"] = Absent
    THEN [data EXCEPT !["renainf"] = FallbackKey(data)]
    ELSE data

\* the for loop over zip(headers, cells), from column i on
RECURSIVE MapColumns(_, _, _, _)
MapColumns(headers, cells, i, acc) ==
    IF i > Len(headers) THEN acc
    ELSE LET en_field == MappedField(headers[i])
             d1 == IF en_field = Absent THEN acc
                   ELSE [data |-> SetKey(acc.data, en_field, cells[i]),
                         n |-> acc.n \cup {en_field}]
             d2 == IF en_field = "numero_renainf"
                   THEN [d1 EXCEPT !.data = SetKey(d1.data, "renainf", cells[i])]
                   ELSE d1
         IN  MapColumns(headers, cells, i + 1, d2)

\* _parse_fine_row: None on a header/cell count mismatch and when no header
\* was mapped (len(fine_data) > 2 counts vehicle_plate and renainf)
parse_fine_row(headers, cells) ==
    IF Len(headers) # Len(cells) THEN NoFineRecord
    ELSE LET m == MapColumns(headers, cells, 1,
                             [data |-> NoFineRecord.data, n |-> {}])
         IN  IF m.n # {}
             THEN [produced |-> TRUE, data |-> EnsureRenainf(m.data)]
             ELSE NoFineRecord

\* the entries the regular expressions of _extract_field_value put in the dict
FromText(textR, textA, textV) ==
    LET d0 == NoFineRecord.data
        d1 == IF textA # Absent THEN SetKey(d0, "numero_auto", textA) ELSE d0
        d2 == IF textR # Absent
              THEN SetKey(SetKey(d1, "numero_renainf", textR), "renainf", textR)
              ELSE d1
    IN  IF textV # Absent THEN SetKey(d2, "valor_original", textV) ELSE d2

\* _parse_fine_card: the texts found in the card, the fallback, and then the
\* label/value pairs, which overwrite what is there
parse_fine_card(textR, textA, textV, pairR, pairA) ==
    LET d1 == EnsureRenainf(FromText(textR, textA, textV))
        d2 == IF pairA # Absent THEN SetKey(d1, "numero_auto", pairA) ELSE d1
        d3 == IF pairR # Absent
              THEN SetKey(SetKey(d2, "numero_renainf", pairR), "renainf", pairR)
              ELSE d2
    IN  IF textR # Absent \/ textA # Absent \/ textV # Absent
           \/ pairR # Absent \/ pairA # Absent
        THEN [produced |-> TRUE, data |-> d3]
        ELSE NoFineRecord

\* _extract_from_detail_view: a record only when the RENAINF text was found
extract_from_detail_view(textR, textA, textV) ==
    IF textR # Absent
    THEN [produced |-> TRUE, data |-> FromText(textR, textA, textV)]
    ELSE NoFineRecord

\* tables whose headers are distinct, with one spelling of each number column
HeaderRows ==
    {h \in UNION {[1..n -> Headers] : n \in 1..MaxCols} :
        /\ \A i, j \in 1..Len(h) : i # j => h[i] # h[j]
        /\ \A i, j \in 1..Len(h) :
              i # j => /\ ~(h[i] \in RenainfHeaders /\ h[j] \in RenainfHeaders)
                       /\ ~(h[i] \in AutoHeaders /\ h[j] \in AutoHeaders)}

CellRows ==
    UNION {[1..n -> CellValues] : n \in 1..MaxCols}

InitExtract ==
    /\ MnIdle
    /\ PgIdle
    /\ PvIdle
    /\ SvIdle
    /\ LgIdle
    /\ RlIdle
    /\ CapIdle
    /\ DbIdle
    /\ DetIdle
    /\ ChkIdle
    /\ AuthIdle
    /\ WalkIdle
    /\ ItemsIdle
    /\ ResIdle
    /\ fx_pc = "ready"
    /\ fx_path = "none"
    /\ fx_in = NoFineInput
    /\ fx_out = NoFineRecord

ParseFineRow ==
    /\ fx_pc = "ready"
    /\ \E headers \in HeaderRows, cells \in CellRows :
          /\ fx_in' = [NoFineInput EXCEPT !.headers = headers, !.cells = cells]
          /\ fx_out' = parse_fine_row(headers, cells)
    /\ fx_path' = "row"
    /\ fx_pc' = "done"
    /\ UNCHANGED notFx

\* a value element paired with a label holds the text shown, or no text
ParseFineCard ==
    /\ fx_pc = "ready"
    /\ \E textR \in FoundValues, textA \in FoundValues, textV \in FoundValues,
          pairR \in CellValues \cup {Absent}, pairA \in CellValues \cup {Absent} :
          /\ pairR \in {Absent, "", textR}
          /\ pairA \in {Absent, "", textA}
          /\ fx_in' = [NoFineInput EXCEPT !.textR = textR, !.textA = textA,
                                          !.textV = textV, !.pairR = pairR,
                                          !.pairA = pairA]
          /\ fx_out' = parse_fine_card(textR, textA, textV, pairR, pairA)
    /\ fx_path' = "card"
    /\ fx_pc' = "done"
    /\ UNCHANGED notFx

ExtractFromDetailView ==
    /\ fx_pc = "ready"
    /\ \E textR \in FoundValues, textA \in FoundValues, textV \in FoundValues :
          /\ fx_in' = [NoFineInput EXCEPT !.textR = textR, !.textA = textA,
                                          !.textV = textV]
          /\ fx_out' = extract_from_detail_view(textR, textA, textV)
    /\ fx_path' = "detail"
    /\ fx_pc' = "done"
    /\ UNCHANGED notFx

NextExtract ==
    \/ ParseFineRow
    \/ ParseFineCard
    \/ ExtractFromDetailView

SpecExtract ==
    InitExtract /\ [][NextExtract]_vars

\* the text the page shows under the headers hs, "" when it shows none
RECURSIVE ShownUnder(_, _, _, _)
ShownUnder(hs, headers, cells, i) ==
    IF i > Len(headers) THEN ""
    ELSE IF headers[i] \in hs THEN cells[i]
    ELSE ShownUnder(hs, headers, cells, i + 1)

\* the RENAINF number the page shows for the fine, "" when it shows none
ShownRenainf ==
    IF fx_path = "row"
    THEN ShownUnder(RenainfHeaders, fx_in.headers, fx_in.cells, 1)
    ELSE IF fx_in.textR # Absent THEN fx_in.textR ELSE ""

\* the notice number (numero_auto) the page shows for the fine, "" when none
ShownAuto ==
    IF fx_path = "row"
    THEN ShownUnder(AutoHeaders, fx_in.headers, fx_in.cells, 1)
    ELSE IF fx_in.textA # Absent THEN fx_in.textA ELSE ""

\* C14: every record FineExtractor produces has a 'renainf' entry holding the
\* fine's RENAINF number or, when the page shows none, the fine's notice
\* number (numero_auto) when the page shows one.
C14_RenainfKey ==
    (fx_pc = "done" /\ fx_out.produced) =>
        /\ fx_out.data["renainf"] # Absent
        /\ ShownRenainf # "" => fx_out.data["renainf"] = ShownRenainf
        /\ (ShownRenainf = "" /\ ShownAuto # "") =>
               fx_out.data["renainf"] = ShownAuto

(***************************************************************************)
(* check_and_handle_captcha_error (fine_scrapper.py) and                   *)
(* detect_and_solve_captcha (captcha_solver.py)                            *)
(***************************************************************************)

\* what check_for_rate_limit_error returns: None, a text without "captcha",
\* a text with it
ErrorTexts ==
    {"none", "other", "captcha"}

\* the elements the two functions look for
SolverWidgets ==
    {"ifr_recaptcha", "data_sitekey", "ifr_hcaptcha"}

CheckWidgets ==
    {"ifr_recaptcha", "ifr_hcaptcha", "div_hcaptcha"}

PageWidgets ==
    SolverWidgets \cup CheckWidgets

CaptchaInputs ==
    [error : ErrorTexts, widgets : SUBSET PageWidgets, api_key : BOOLEAN,
     enable : BOOLEAN, solved : BOOLEAN, solve_raises : BOOLEAN,
     reload : {"ok", "raise"}, error_after : BOOLEAN, raises : BOOLEAN]

\* detect_and_solve_captcha: False when no widget is found, when
\* CAPTCHA_API_KEY is not set, when no solution was injected, on an exception
detect_and_solve_captcha(in) ==
    IF in.solve_raises THEN FALSE
    ELSE IF in.widgets \cap SolverWidgets = {} THEN FALSE
    ELSE IF ~in.api_key THEN FALSE
    ELSE in.solved

\* check_and_handle_captcha_error
check_and_handle_captcha_error(in) ==
    IF in.raises THEN TRUE
    ELSE IF in.error # "captcha" THEN TRUE
    ELSE IF in.widgets \cap CheckWidgets # {}
    THEN IF in.enable THEN detect_and_solve_captcha(in) ELSE TRUE
    ELSE IF in.reload = "raise" THEN FALSE
    ELSE ~in.error_after

\* the text check_for_rate_limit_error returns on the page as
\* check_and_handle_captcha_error leaves it: the function changes the page
\* only by a solution it injects or by its reload; stays is whether the
\* error text is still shown where the code cannot tell
ErrorLeft(in, stays) ==
    IF in.error # "captcha" \/ in.raises THEN in.error
    ELSE IF in.widgets \cap CheckWidgets # {}
    THEN IF in.enable /\ detect_and_solve_captcha(in) /\ ~stays THEN "none"
         ELSE "captcha"
    ELSE IF in.reload = "raise" THEN (IF stays THEN "captcha" ELSE "none")
    ELSE IF in.error_after THEN "captcha" ELSE "none"

InitCaptchaError ==
    /\ MnIdle
    /\ PgIdle
    /\ PvIdle
    /\ SvIdle
    /\ LgIdle
    /\ RlIdle
    /\ DbIdle
    /\ FxIdle
    /\ DetIdle
    /\ ChkIdle
    /\ AuthIdle
    /\ WalkIdle
    /\ ItemsIdle
    /\ ResIdle
    /\ cap_pc = "ready"
    /\ cap_op = "none"
    /\ cap_in = NoCaptchaInput
    /\ cap_result = FALSE
    /\ cap_after = "none"

CheckAndHandleCaptchaError ==
    /\ cap_pc = "ready"
    /\ \E in \in CaptchaInputs :
          /\ cap_in' = in
          /\ cap_result' = check_and_handle_captcha_error(in)
          /\ \E stays \in BOOLEAN : cap_after' = ErrorLeft(in, stays)
    /\ cap_op' = "check"
    /\ cap_pc' = "done"
    /\ UNCHANGED notCap

\* the call a caller makes when config.ENABLE_CAPTCHA_SOLVING is set
DetectAndSolveCaptcha ==
    /\ cap_pc = "ready"
    /\ \E in \in CaptchaInputs :
          /\ in.enable
          /\ in.error = "none" /\ in.reload = "ok" /\ ~in.error_after
          /\ ~in.raises
          /\ cap_in' = in
          /\ cap_result' = detect_and_solve_captcha(in)
          /\ cap_after' = in.error
    /\ cap_op' = "solve"
    /\ cap_pc' = "done"
    /\ UNCHANGED notCap

NextCaptchaError ==
    \/ CheckAndHandleCaptchaError
    \/ DetectAndSolveCaptcha

SpecCaptchaError ==
    InitCaptchaError /\ [][NextCaptchaError]_vars

\* the external solver cannot be used: no API key, or the toggle is off
SolverUnavailable ==
    ~cap_in.api_key \/ ~cap_in.enable

\* C16: with a widget challenge detected and the solver not available (no
\* CAPTCHA_API_KEY, or ENABLE_CAPTCHA_SOLVING off), detect_and_solve_captcha
\* returns False and check_and_handle_captcha_error returns False.
C16_SolverUnavailable ==
    (cap_pc = "done" /\ SolverUnavailable) =>
        /\ (cap_op = "solve" /\ cap_in.widgets \cap SolverWidgets # {}) =>
               ~cap_result
        /\ (/\ cap_op = "check"
            /\ ~cap_in.raises
            /\ cap_in.error = "captcha"
            /\ cap_in.widgets \cap CheckWidgets # {}) => ~cap_result

\* C27: when check_and_handle_captcha_error returns True for a page on which
\* check_for_rate_limit_error found a CAPTCHA error, a following
\* check_for_rate_limit_error finds no CAPTCHA error.
C27_HandledMeansCleared ==
    (/\ cap_pc = "done"
     /\ cap_op = "check"
     /\ cap_in.error = "captcha"
     /\ cap_result) =>
        cap_after # "captcha"

(***************************************************************************)
(* handle_rate_limit (rate_limit_handler.py)                               *)
(***************************************************************************)

\* the largest max_retries argument
MaxRetries == 4

DEFAULT_BACKOFF_BASE == 2

MAX_BACKOFF_SECONDS == 300

INITIAL_BACKOFF_SECONDS == 5

\* the backoff_base arguments: the default, and one that reaches the cap
BackoffBases ==
    {DEFAULT_BACKOFF_BASE, 10}

\* how a retry_func call ends: it returns, it raises an exception whose text
\* has "429", "rate limit" or "too many requests", it raises another one
FuncOutcomes ==
    {"ok", "rate_limit", "other"}

RECURSIVE Pow(_, _)
Pow(b, n) ==
    IF n = 0 THEN 1 ELSE b * Pow(b, n - 1)

\* min(INITIAL_BACKOFF_SECONDS * (backoff_base ** attempt), MAX_BACKOFF_SECONDS)
BackoffTime(base, attempt) ==
    Min(INITIAL_BACKOFF_SECONDS * Pow(base, attempt), MAX_BACKOFF_SECONDS)

\* random.uniform(0.1, 0.3), in percent
JitterPercents ==
    {10, 20, 30}

\* total_wait = backoff_time + jitter, in tenths of a second
TotalWait(base, attempt, pct) ==
    BackoffTime(base, attempt) * 10 + (BackoffTime(base, attempt) * pct) \div 10

\* a pass that goes on after retry_func has returned
RateLimitPass_RetriesOn(attempt, max_retries, error, func) ==
    IF error \/ func # "other"
    THEN IF attempt < max_retries - 1
         THEN [next |-> "continue", called |-> ~error,
               completed |-> ~error /\ func = "ok", waited |-> TRUE,
               reload |-> error]
         ELSE [next |-> IF ~error /\ func = "ok" THEN "true" ELSE "false",
               called |-> ~error, completed |-> ~error /\ func = "ok",
               waited |-> FALSE, reload |-> FALSE]
    ELSE [next |-> "raised", called |-> TRUE, completed |-> FALSE,
          waited |-> FALSE, reload |-> FALSE]

\* one pass of "for attempt in range(max_retries)": error is whether
\* check_for_rate_limit_error returned a text, func how retry_func ends if
\* it is called
RateLimitPass(attempt, max_retries, error, func) ==
    IF error
    THEN IF attempt < max_retries - 1
         THEN [next |-> "continue", called |-> FALSE, completed |-> FALSE,
               waited |-> TRUE, reload |-> TRUE]
         ELSE [next |-> "false", called |-> FALSE, completed |-> FALSE,
               waited |-> FALSE, reload |-> FALSE]
    ELSE IF func = "ok"
    THEN [next |-> "true", called |-> TRUE, completed |-> TRUE,
          waited |-> FALSE, reload |-> FALSE]
    ELSE IF func = "rate_limit"
    THEN IF attempt < max_retries - 1
         THEN [next |-> "continue", called |-> TRUE, completed |-> FALSE,
               waited |-> TRUE, reload |-> FALSE]
         ELSE [next |-> "false", called |-> TRUE, completed |-> FALSE,
               waited |-> FALSE, reload |-> FALSE]
    ELSE [next |-> "raised", called |-> TRUE, completed |-> FALSE,
          waited |-> FALSE, reload |-> FALSE]

InitRateLimit ==
    /\ MnIdle
    /\ PgIdle
    /\ PvIdle
    /\ SvIdle
    /\ LgIdle
    /\ DbIdle
    /\ FxIdle
    /\ CapIdle
    /\ DetIdle
    /\ ChkIdle
    /\ AuthIdle
    /\ WalkIdle
    /\ ItemsIdle
    /\ ResIdle
    /\ rl_pc = "loop"
    /\ rl_max \in 0..MaxRetries
    /\ rl_base \in BackoffBases
    /\ rl_attempt = 0
    /\ rl_calls = 0
    /\ rl_completed = 0
    /\ rl_result = "none"
    /\ rl_backoff = 0
    /\ rl_reloads = 0

\* one pass of the for loop
RateLimitAttempt ==
    /\ rl_pc = "loop"
    /\ rl_attempt < rl_max
    /\ \E error \in BOOLEAN, func \in FuncOutcomes, pct \in JitterPercents :
          LET r == RateLimitPass(rl_attempt, rl_max, error, func)
          IN  /\ rl_attempt' = rl_attempt + 1
              /\ rl_calls' = rl_calls + (IF r.called THEN 1 ELSE 0)
              /\ rl_completed' = rl_completed + (IF r.completed THEN 1 ELSE 0)
              /\ rl_backoff' = IF r.waited
                               THEN TotalWait(rl_base, rl_attempt, pct)
                               ELSE rl_backoff
              /\ rl_reloads' = rl_reloads + (IF r.reload THEN 1 ELSE 0)
              /\ IF r.next = "continue"
                 THEN UNCHANGED <<rl_pc, rl_result>>
                 ELSE rl_pc' = "done" /\ rl_result' = r.next
    /\ UNCHANGED <<rl_max, rl_base, notRl>>

\* the range is used up: the "return False" after the loop
RateLimitExhausted ==
    /\ rl_pc = "loop"
    /\ rl_attempt >= rl_max
    /\ rl_pc' = "done"
    /\ rl_result' = "false"
    /\ UNCHANGED <<rl_max, rl_base, rl_attempt, rl_calls, rl_completed,
                   rl_backoff, rl_reloads, notRl>>

NextRateLimit ==
    \/ RateLimitAttempt
    \/ RateLimitExhausted

SpecRateLimit ==
    InitRateLimit /\ [][NextRateLimit]_vars

\* C26: handle_rate_limit returns True exactly when retry_func ran to
\* completion on some pass, returns False when the max_retries passes are
\* used up, calls retry_func at most max_retries times, and makes no further
\* pass once retry_func has run to completion.
C26_RetryBudget ==
    /\ rl_calls <= rl_max
    /\ rl_attempt <= rl_max
    /\ rl_completed <= 1
    /\ rl_completed = 1 => (rl_pc = "done" /\ rl_result = "true")
    /\ rl_result = "true" => rl_completed = 1
    /\ rl_result = "false" => (rl_pc = "done" /\ rl_attempt = rl_max)
    /\ (rl_attempt = rl_max /\ rl_completed = 0 /\ rl_pc = "done") =>
           rl_result \in {"false", "raised"}

\* True on the last pass allowed, after passes that found the error text
\* and passes in which retry_func hit the rate limit
C26_Witness ==
    /\ rl_result = "true"
    /\ rl_max = MaxRetries
    /\ rl_attempt = rl_max
    /\ rl_reloads >= 1
    /\ rl_calls >= 2

\* C34: the wait before a retry, total_wait of handle_rate_limit, is never
\* longer than MAX_BACKOFF_SECONDS, for every attempt and backoff base
\* (rl_backoff is in tenths of a second).
C34_WaitWithinMax ==
    rl_backoff <= MAX_BACKOFF_SECONDS * 10

(***************************************************************************)
(* The waits of AuthHandler.login: the certificate-selection loop, the     *)
(* portal-redirect loop and the resolvers they call.  Each loop reads      *)
(* time.time() at its test; a pass that does not sleep still takes the     *)
(* time of its browser calls, so at most SpinsPerTick such passes fit      *)
(* into one second of the clock.                                           *)
(***************************************************************************)

\* the most passes of a loop without a sleep within one second
SpinsPerTick == 2

\* a wait whose deadline is never tested
WaitContinues_NoCeiling(e, timeout) ==
    TRUE

\* while time.time() - start_time < timeout / max_wait_time
WaitContinues(e, timeout) ==
    e < timeout

\* the clock of a loop after a pass that took cost seconds of sleep; the
\* loop tests only whether it is below the timeout, so it is followed no
\* further than the timeout
ClockAfter(e, spin, cost, timeout) ==
    Min(timeout,
        e + cost + (IF cost = 0 /\ spin + 1 >= SpinsPerTick THEN 1 ELSE 0))

SpinAfter(spin, cost) ==
    IF cost = 0 /\ spin + 1 < SpinsPerTick THEN spin + 1 ELSE 0

\* login returns v
LoginEnds(v) ==
    /\ lg_pc' = "done"
    /\ lg_result' = BoolStr(v)
    /\ lg_caller' = "none"

\* the resolver is called from the loop in progress
CallResolver(kind) ==
    /\ lg_caller' = lg_pc
    /\ lg_pc' = "resolver"
    /\ r_kind' = kind
    /\ r_pc' = "start"
    /\ r_max_wait' = MaxWait
    /\ r_now' = 0
    /\ UNCHANGED <<r_last_url, r_result, r_cleared, r_probe, lg_elapsed,
                   lg_spin, lg_result>>

InitLoginWaits ==
    /\ MnIdle
    /\ PgIdle
    /\ PvIdle
    /\ SvIdle
    /\ RlIdle
    /\ CapIdle
    /\ FxIdle
    /\ DbIdle
    /\ DetIdle
    /\ ChkIdle
    /\ AuthIdle
    /\ WalkIdle
    /\ ItemsIdle
    /\ ResIdle
    /\ lg_pc = "cert_loop"
    /\ lg_caller = "none"
    /\ lg_elapsed = 0
    /\ lg_spin = 0
    /\ lg_result = "none"

\* the loop test and one pass of the loop of _handle_certificate_selection,
\* and the reading of final_url once the loop has ended
CertWaitPass ==
    /\ lg_pc = "cert_loop"
    /\ \E u \in Urls, ch \in CertChallenges :
          IF ~WaitContinues(lg_elapsed, SelectionTimeout)
          THEN IF ~HasSso(u)
               THEN /\ lg_pc' = "redirect_loop"
                    /\ lg_elapsed' = 0
                    /\ lg_spin' = 0
                    /\ UNCHANGED <<lg_caller, lg_result, resVars>>
               ELSE /\ LoginEnds(FALSE)
                    /\ UNCHANGED <<lg_elapsed, lg_spin, resVars>>
          ELSE IF BackOnPortal(u)
          THEN /\ lg_pc' = "redirect_loop"
               /\ lg_elapsed' = 0
               /\ lg_spin' = 0
               /\ UNCHANGED <<lg_caller, lg_result, resVars>>
          ELSE IF ch = "erl" THEN CallResolver("error")
          ELSE IF ch = "captcha" THEN CallResolver("handle")
          ELSE IF ch = "cert_not_found"
          THEN /\ LoginEnds(FALSE)
               /\ UNCHANGED <<lg_elapsed, lg_spin, resVars>>
          ELSE \* time.sleep(1)
               /\ lg_elapsed' = ClockAfter(lg_elapsed, lg_spin, 1,
                                           SelectionTimeout)
               /\ lg_spin' = SpinAfter(lg_spin, 1)
               /\ UNCHANGED <<lg_pc, lg_caller, lg_result, resVars>>
    /\ UNCHANGED notLgRes

\* the loop test and one pass of the redirect loop of login
RedirectWaitPass ==
    /\ lg_pc = "redirect_loop"
    /\ \E u \in Urls, ch \in RedirectChallenges :
          IF ~WaitContinues(lg_elapsed, AuthenticationTimeout)
          THEN /\ LoginEnds(FALSE)
               /\ UNCHANGED <<lg_elapsed, lg_spin, resVars>>
          ELSE IF RedirectDetected(u)
          THEN /\ lg_pc' = "verify"
               /\ UNCHANGED <<lg_caller, lg_elapsed, lg_spin, lg_result,
                              resVars>>
          ELSE IF ~HasX509(u) /\ HasSso(u) /\ ch = "captcha"
          THEN CallResolver("handle")
          ELSE IF ~HasX509(u) /\ HasSso(u) /\ ch = "cert_not_found"
          THEN /\ LoginEnds(FALSE)
               /\ UNCHANGED <<lg_elapsed, lg_spin, resVars>>
          ELSE \* time.sleep(1)
               /\ lg_elapsed' = ClockAfter(lg_elapsed, lg_spin, 1,
                                           AuthenticationTimeout)
               /\ lg_spin' = SpinAfter(lg_spin, 1)
               /\ UNCHANGED <<lg_pc, lg_caller, lg_result, resVars>>
    /\ UNCHANGED notLgRes

\* the resolver has returned: "continue" to the loop test, or return False
ResolverReturns ==
    /\ lg_pc = "resolver"
    /\ r_pc = "done"
    /\ LET timeout == IF lg_caller = "cert_loop" THEN SelectionTimeout
                      ELSE AuthenticationTimeout
       IN  IF AfterResolver(r_result) = "continue"
           THEN /\ lg_pc' = lg_caller
                /\ lg_caller' = "none"
                /\ lg_elapsed' = ClockAfter(lg_elapsed, lg_spin, r_now, timeout)
                /\ lg_spin' = SpinAfter(lg_spin, r_now)
                /\ UNCHANGED lg_result
           ELSE /\ LoginEnds(FALSE)
                /\ UNCHANGED <<lg_elapsed, lg_spin>>
    /\ r_kind' = "none"
    /\ r_pc' = "idle"
    /\ r_max_wait' = 0
    /\ r_now' = 0
    /\ r_last_url' = "other"
    /\ r_result' = FALSE
    /\ r_cleared' = FALSE
    /\ r_probe' = "none"
    /\ UNCHANGED notLgRes

\* Step 6 of login: _check_logged_in decides what login returns
VerifyLogin ==
    /\ lg_pc = "verify"
    /\ \E u \in Urls, markers \in SUBSET (1..NumIndicators),
          entrar \in BOOLEAN, raise \in 0..EntrarProbe :
          LoginEnds(check_logged_in(u, markers, entrar, raise))
    /\ UNCHANGED <<lg_elapsed, lg_spin, resVars, notLgRes>>

NextLoginWaits ==
    \/ CertWaitPass
    \/ RedirectWaitPass
    \/ StartResolver
    \/ CaptchaTick
    \/ ErrorResolutionTick
    \/ ResolverReturns
    \/ VerifyLogin

\* every step that can be taken is taken at some time: each browser call
\* returns
SpecLoginWaits ==
    InitLoginWaits /\ [][NextLoginWaits]_vars /\ WF_vars(NextLoginWaits)

\* C32: every polling loop of the login flow (certificate-selection wait,
\* portal-redirect wait, error-resolution wait, CAPTCHA-solution wait) ends:
\* login always returns True or False, and no path stays in a loop forever.
C32_LoginTerminates ==
    <>(lg_pc = "done" /\ lg_result \in {"true", "false"})

\* a resolver called from the portal-redirect wait used up its max_wait and
\* is about to return False to login
C32_Witness ==
    /\ lg_pc = "resolver"
    /\ lg_caller = "redirect_loop"
    /\ r_pc = "done"
    /\ ~r_result
    /\ r_now >= r_max_wait

(***************************************************************************)
(* CaptchaSolver._wait_for_solution (captcha_solver.py).  Time is in       *)
(* seconds; it passes in asyncio.sleep(poll_interval) and in the request   *)
(* to the solving service.                                                 *)
(***************************************************************************)

\* the largest timeout _wait_for_solution is called with
MaxSolveTimeout == 4

\* the poll_interval values followed
PollIntervals ==
    {1, 2}

\* seconds one request to the service can take
RequestTimes ==
    {0, 1}

\* status 1 | request "CAPCHA_NOT_READY" | any other answer | the request
\* raises
PollAnswers ==
    {"ready", "not_ready", "failure", "raises"}

\* a loop that takes an error answer for "not ready"
PollOutcome_FailureRetries(answer) ==
    IF answer = "ready" THEN "token"
    ELSE IF answer \in {"not_ready", "failure"} THEN "continue"
    ELSE "None"

\* what the loop does with the answer to a poll
PollOutcome(answer) ==
    IF answer = "ready" THEN "token"
    ELSE IF answer = "not_ready" THEN "continue"
    ELSE "None"

InitSolver ==
    /\ MnIdle
    /\ PgIdle
    /\ PvIdle
    /\ LgIdle
    /\ RlIdle
    /\ CapIdle
    /\ FxIdle
    /\ DbIdle
    /\ DetIdle
    /\ ChkIdle
    /\ AuthIdle
    /\ WalkIdle
    /\ ItemsIdle
    /\ ResIdle
    /\ sv_pc = "loop"
    /\ sv_timeout \in 0..MaxSolveTimeout
    /\ sv_interval \in PollIntervals
    /\ sv_now = 0
    /\ sv_polls = 0
    /\ sv_last = "none"
    /\ sv_last_at = 0
    /\ sv_gap = 0
    /\ sv_result = "none"

\* the loop test, and one pass: asyncio.sleep(poll_interval), the request,
\* the answer
SolverPoll ==
    /\ sv_pc = "loop"
    /\ IF ~(sv_now < sv_timeout)
       THEN /\ sv_pc' = "done"
            /\ sv_result' = "None"
            /\ UNCHANGED <<sv_now, sv_polls, sv_last, sv_last_at, sv_gap>>
       ELSE \E answer \in PollAnswers, took \in RequestTimes :
               /\ sv_polls' = sv_polls + 1
               /\ sv_last' = answer
               /\ sv_last_at' = sv_now + sv_interval
               /\ sv_gap' = sv_now + sv_interval - sv_last_at
               /\ sv_now' = sv_now + sv_interval + took
               /\ IF PollOutcome(answer) = "continue"
                  THEN UNCHANGED <<sv_pc, sv_result>>
                  ELSE /\ sv_pc' = "done"
                       /\ sv_result' = PollOutcome(answer)
    /\ UNCHANGED <<sv_timeout, sv_interval, notSv>>

NextSolver ==
    SolverPoll

SpecSolver ==
    InitSolver /\ [][NextSolver]_vars

\* C33: _wait_for_solution polls at poll_interval: it goes on polling only
\* while every answer so far was "not ready", returns the token exactly when
\* a poll answered "ready", returns None at a failure answer and when the
\* loop test finds the timeout elapsed; consecutive polls are at least
\* poll_interval apart, each poll follows a loop test that found the
\* timeout not elapsed, and the polls number at most
\* ceil(timeout / poll_interval).
C33_PollUntilAnswer ==
    /\ sv_pc = "loop" => sv_last \in {"none", "not_ready"}
    /\ sv_result = "token" <=> sv_last = "ready"
    /\ sv_last \in {"failure", "raises"} => sv_result = "None"
    /\ (sv_pc = "done" /\ sv_last \in {"none", "not_ready"}) =>
           (sv_result = "None" /\ sv_now >= sv_timeout)
    /\ sv_polls > 0 =>
           /\ sv_gap >= sv_interval
           /\ sv_last_at - sv_interval < sv_timeout
           /\ (sv_polls - 1) * sv_interval < sv_timeout

\* the timeout elapsed after as many "not ready" answers as fit into it
C33_Witness ==
    /\ sv_pc = "done"
    /\ sv_result = "None"
    /\ sv_last = "not_ready"
    /\ sv_timeout = MaxSolveTimeout
    /\ sv_interval = 1
    /\ sv_polls = MaxSolveTimeout

(***************************************************************************)
(* SenatranAutomation.process_vehicles (main.py): the loop over the        *)
(* vehicles and its two counters.                                          *)
(***************************************************************************)

\* the most vehicles get_vehicles returns
MaxVehicles == 3

\* how one iteration of the for loop goes:
\*   nav_false       navigate_to_vehicle_fines returned False
\*   nav_raises      navigate_to_vehicle_fines raised
\*   extract_raises  extract_fines raised
\*   no_fines        extract_fines returned an empty list
\*   save_raises     upsert_fines_batch raised
\*   saved           the fines were saved and the delay, if any, was slept
\*   delay_raises    the fines were saved and a statement of the rate
\*                   limiting delay raised (e.g. RATE_LIMITING['min_delay'])
IterationPaths ==
    {"nav_false", "nav_raises", "extract_raises", "no_fines", "save_raises",
     "saved", "delay_raises"}

\* the paths that enter "except Exception" of the loop body
RaisingPaths ==
    {"nav_raises", "extract_raises", "save_raises", "delay_raises"}

\* the increments of one iteration: the body up to the exception, then the
\* except clause
IterationCounts(path) ==
    [processed |-> IF path \in {"no_fines", "saved", "delay_raises"}
                   THEN 1 ELSE 0,
     failed |-> IF path = "nav_false" \/ path \in RaisingPaths THEN 1 ELSE 0,
     errors |-> IF path \in RaisingPaths THEN 1 ELSE 0]

InitVehicles ==
    /\ MnIdle
    /\ PgIdle
    /\ SvIdle
    /\ LgIdle
    /\ RlIdle
    /\ CapIdle
    /\ FxIdle
    /\ DbIdle
    /\ DetIdle
    /\ ChkIdle
    /\ AuthIdle
    /\ WalkIdle
    /\ ItemsIdle
    /\ ResIdle
    /\ pv_pc = "start"
    /\ pv_n = 0
    /\ pv_done = 0
    /\ vehicles_processed = 0
    /\ vehicles_failed = 0
    /\ pv_errors = 0
    /\ pv_last = "none"

\* vehicles = vehicle_scraper.get_vehicles(); an exception reaches the outer
\* except clause, an empty list returns the statistics as they are
GetVehicles ==
    /\ pv_pc = "start"
    /\ \E n \in 0..MaxVehicles, raises \in BOOLEAN :
          IF raises \/ n = 0
          THEN pv_pc' = "done" /\ UNCHANGED pv_n
          ELSE pv_pc' = "loop" /\ pv_n' = n
    /\ UNCHANGED <<pv_done, vehicles_processed, vehicles_failed, pv_errors,
                   pv_last, notPv>>

\* one iteration of "for i, vehicle in enumerate(vehicles, 1)"; the delay is
\* slept only when i < len(vehicles); handlerRaises: a statement of the
\* except clause after the counting raises, which ends the loop
ProcessOneVehicle ==
    /\ pv_pc = "loop"
    /\ pv_done < pv_n
    /\ \E path \in IterationPaths, handlerRaises \in BOOLEAN :
          /\ path = "delay_raises" => pv_done + 1 < pv_n
          /\ handlerRaises => path \in RaisingPaths
          /\ vehicles_processed' =
                 vehicles_processed + IterationCounts(path).processed
          /\ vehicles_failed' = vehicles_failed + IterationCounts(path).failed
          /\ pv_errors' = pv_errors + IterationCounts(path).errors
          /\ pv_last' = path
          /\ pv_done' = pv_done + 1
          /\ pv_pc' = IF handlerRaises \/ pv_done + 1 = pv_n THEN "done"
                      ELSE "loop"
    /\ UNCHANGED <<pv_n, notPv>>

NextVehicles ==
    \/ GetVehicles
    \/ ProcessOneVehicle

SpecVehicles ==
    InitVehicles /\ [][NextVehicles]_vars

\* C36: every vehicle whose iteration has finished is counted in exactly one
\* of vehicles_processed and vehicles_failed: their sum is the number of
\* finished iterations.
C36_CountedOnce ==
    vehicles_processed + vehicles_failed = pv_done

(***************************************************************************)
(* check_for_next_page and navigate_to_next_page on one state of the page  *)
(* (fine_scrapper.py).  A next-page control is matched either by the       *)
(* selectors with the id btn-next-page or the chevron icon, which only     *)
(* navigate_to_next_page has ("id"), or by the selectors with the text     *)
(* 'Proximo' or its aria-label, which both functions have ("label").       *)
(***************************************************************************)

\* the most next-page controls on a page
MaxControls == 2

NextControls ==
    [kind : {"id", "label"}, attr : BOOLEAN, cls : BOOLEAN]

ControlLists ==
    UNION {[1..n -> NextControls] : n \in 0..MaxControls}

\* the controls a selector of the kind matches, as their positions
Matching(cs, kind) ==
    {i \in DOMAIN cs : cs[i].kind = kind}

FirstOf(S) ==
    CHOOSE i \in S : \A j \in S : i <= j

\* neither the attribute 'disabled' nor 'disabled' in the class
Enabled(c) ==
    ~c.attr /\ ~c.cls

\* page.locator(selector): count(), then get_attribute on the locator,
\* which raises when the locator matches more than one element
LocatorReading(cs, kind) ==
    IF Matching(cs, kind) = {} THEN "absent"
    ELSE IF Cardinality(Matching(cs, kind)) > 1 THEN "raises"
    ELSE IF Enabled(cs[FirstOf(Matching(cs, kind))]) THEN "enabled"
    ELSE "disabled"

\* page.query_selector(selector): the first element that matches
QueryReading(cs, kind) ==
    IF Matching(cs, kind) = {} THEN "absent"
    ELSE IF Enabled(cs[FirstOf(Matching(cs, kind))]) THEN "enabled"
    ELSE "disabled"

\* the numbers strategy 1 of check_for_next_page reads from the text
RangeText(text) ==
    [start |-> 1, end |-> IF text = "more" THEN 1 ELSE 2, total |-> 2]

\* navigate_to_next_page.  Strategy 1 clicks '#btn-next-page' when its
\* attribute 'disabled' is absent; strategy 2 clicks the first selector
\* whose only match has neither the attribute nor the class.
navigate_to_next_page(cs) ==
    LET ids == Matching(cs, "id")
        labels == Matching(cs, "label")
    IN  IF Cardinality(ids) = 1 /\ ~cs[FirstOf(ids)].attr
        THEN [clicked |-> FirstOf(ids), raised |-> FALSE]
        ELSE IF LocatorReading(cs, "id") = "enabled"
        THEN [clicked |-> FirstOf(ids), raised |-> FALSE]
        ELSE IF LocatorReading(cs, "label") = "enabled"
        THEN [clicked |-> FirstOf(labels), raised |-> FALSE]
        ELSE [clicked |-> 0, raised |-> TRUE]

InitPaginate ==
    /\ MnIdle
    /\ PvIdle
    /\ SvIdle
    /\ LgIdle
    /\ RlIdle
    /\ CapIdle
    /\ FxIdle
    /\ DbIdle
    /\ DetIdle
    /\ ChkIdle
    /\ AuthIdle
    /\ WalkIdle
    /\ ItemsIdle
    /\ ResIdle
    /\ pg_pc = "check"
    /\ pg_text \in {"more", "last", "unreadable"}
    /\ pg_controls \in ControlLists
    /\ pg_check = FALSE
    /\ pg_clicked = 0
    /\ pg_raised = FALSE

\* has_next_page = await check_for_next_page(page)
CheckForNextPage ==
    /\ pg_pc = "check"
    /\ pg_check' = check_for_next_page(pg_text # "unreadable",
                                       RangeText(pg_text),
                                       LocatorReading(pg_controls, "label"),
                                       QueryReading(pg_controls, "label"))
    /\ pg_pc' = IF pg_check' THEN "navigate" ELSE "done"
    /\ UNCHANGED <<pg_text, pg_controls, pg_clicked, pg_raised, notPg>>

\* await navigate_to_next_page(page), on the page as the check saw it
NavigateToNextPage ==
    /\ pg_pc = "navigate"
    /\ pg_clicked' = navigate_to_next_page(pg_controls).clicked
    /\ pg_raised' = navigate_to_next_page(pg_controls).raised
    /\ pg_pc' = "done"
    /\ UNCHANGED <<pg_text, pg_controls, pg_check, notPg>>

NextPaginate ==
    \/ CheckForNextPage
    \/ NavigateToNextPage

SpecPaginate ==
    InitPaginate /\ [][NextPaginate]_vars

\* C38: on every page state on which check_for_next_page returned True,
\* navigate_to_next_page does not raise and clicks a next-page control that
\* has neither the attribute 'disabled' nor the class 'disabled'.
C38_DetectorActuatorAgree ==
    (pg_pc = "done" /\ pg_check) =>
        /\ ~pg_raised
        /\ pg_clicked \in DOMAIN pg_controls
        /\ Enabled(pg_controls[pg_clicked])

(***************************************************************************)
(* setup_rate_limit_monitoring.handle_request (rate_limit_handler.py).     *)
(* Each monitored request starts one callback on the event loop; the       *)
(* callbacks interleave at their await points.  The clock is in seconds.   *)
(***************************************************************************)

\* callbacks started while the model runs
NumCallbacks == 3

\* the clock is followed no further than this
MaxClock == 16

\* monitored requests that were handled before the model starts, if any
PriorRequests == 3

\* "if time_since_last < 3.0"
MinGap == 3

\* "current_count % 5 == 0"
ExtraEvery == 5

\* extra_delay = random.uniform(5.0, 10.0), its least value
ExtraDelay == 5

Callbacks ==
    1..NumCallbacks

\* no gap seen yet
NoGap == MaxClock + 1

\* callbacks that do not wait for the lock
LockFree_NoLock(holder) ==
    TRUE

\* "async with request_lock": the body is entered when the lock is free
LockFree(holder) ==
    holder = 0

\* wait_time of a callback that read the clock at now: 0 when none is slept
WaitTime(now, last) ==
    IF last > 0 /\ now - last < MinGap THEN MinGap - (now - last) ELSE 0

\* the callback is the one that sleeps the extra delay
ExtraDue(count, lastExtra) ==
    count % ExtraEvery = 0 /\ count # lastExtra

\* "last_request_time = current_time" for callback c at the clock value t,
\* and what follows it up to the next await or the end of the body
Record(c, count, t, lastExtra) ==
    /\ last_request_time' = t
    /\ mn_first' = t
    /\ mn_min_gap' = IF mn_first > 0 THEN Min(mn_min_gap, t - mn_first)
                     ELSE mn_min_gap
    /\ IF ExtraDue(count, lastExtra)
       THEN /\ last_extra_delay_count' = count
            /\ mn_pc' = [mn_pc EXCEPT ![c] = "extra"]
            /\ mn_wake' = [mn_wake EXCEPT ![c] = t + ExtraDelay]
            /\ mn_lock' = IF mn_lock = c \/ mn_lock = 0 THEN c ELSE mn_lock
       ELSE /\ mn_pc' = [mn_pc EXCEPT ![c] = "done"]
            /\ mn_wake' = [mn_wake EXCEPT ![c] = 0]
            /\ mn_lock' = IF mn_lock = c THEN 0 ELSE mn_lock
            /\ UNCHANGED last_extra_delay_count

InitMonitor ==
    /\ PgIdle
    /\ PvIdle
    /\ SvIdle
    /\ LgIdle
    /\ RlIdle
    /\ CapIdle
    /\ FxIdle
    /\ DbIdle
    /\ DetIdle
    /\ ChkIdle
    /\ AuthIdle
    /\ WalkIdle
    /\ ItemsIdle
    /\ ResIdle
    /\ mn_pc = [c \in Callbacks |-> "idle"]
    /\ mn_lock = 0
    /\ request_count \in {0, PriorRequests}
    /\ mn_now = 1
    /\ last_request_time = IF request_count = 0 THEN 0 ELSE mn_now
    /\ last_extra_delay_count = ExtraEvery * (request_count \div ExtraEvery)
    /\ mn_count = [c \in Callbacks |-> 0]
    /\ mn_wake = [c \in Callbacks |-> 0]
    /\ mn_first = last_request_time
    /\ mn_min_gap = NoGap

\* the page sends a monitored request: page.on("request", handle_request)
\* starts the callback
RequestSent(c) ==
    /\ mn_pc[c] = "idle"
    /\ mn_pc' = [mn_pc EXCEPT ![c] = "acquire"]
    /\ UNCHANGED <<mn_lock, request_count, last_request_time,
                   last_extra_delay_count, mn_now, mn_count, mn_wake,
                   mn_first, mn_min_gap, notMn>>

\* the callback enters the body: from request_count += 1 to its first
\* await, or to the end of the body when it does not sleep
EnterBody(c) ==
    /\ mn_pc[c] = "acquire"
    /\ LockFree(mn_lock)
    /\ request_count' = request_count + 1
    /\ mn_count' = [mn_count EXCEPT ![c] = request_count + 1]
    /\ IF WaitTime(mn_now, last_request_time) > 0
       THEN /\ mn_pc' = [mn_pc EXCEPT ![c] = "sleep"]
            /\ mn_wake' = [mn_wake EXCEPT
                             ![c] = mn_now + WaitTime(mn_now, last_request_time)]
            /\ mn_lock' = IF mn_lock = 0 THEN c ELSE mn_lock
            /\ UNCHANGED <<last_request_time, last_extra_delay_count, mn_first,
                           mn_min_gap>>
       ELSE Record(c, request_count + 1, mn_now, last_extra_delay_count)
    /\ UNCHANGED <<mn_now, notMn>>

\* asyncio.sleep(wait_time) has ended: the clock is read again
DelayOver(c) ==
    /\ mn_pc[c] = "sleep"
    /\ mn_now >= mn_wake[c]
    /\ Record(c, mn_count[c], mn_now, last_extra_delay_count)
    /\ UNCHANGED <<request_count, mn_now, mn_count, notMn>>

\* asyncio.sleep(extra_delay) has ended: last_request_time is set again and
\* the lock is released
ExtraDelayOver(c) ==
    /\ mn_pc[c] = "extra"
    /\ mn_now >= mn_wake[c]
    /\ last_request_time' = mn_now
    /\ mn_first' = mn_now
    /\ mn_pc' = [mn_pc EXCEPT ![c] = "done"]
    /\ mn_wake' = [mn_wake EXCEPT ![c] = 0]
    /\ mn_lock' = IF mn_lock = c THEN 0 ELSE mn_lock
    /\ UNCHANGED <<request_count, last_extra_delay_count, mn_now, mn_count,
                   mn_min_gap, notMn>>

\* a second passes
ClockTick ==
    /\ mn_now < MaxClock
    /\ mn_now' = mn_now + 1
    /\ UNCHANGED <<mn_pc, mn_lock, request_count, last_request_time,
                   last_extra_delay_count, mn_count, mn_wake, mn_first,
                   mn_min_gap, notMn>>

NextMonitor ==
    \/ \E c \in Callbacks : RequestSent(c)
    \/ \E c \in Callbacks : EnterBody(c)
    \/ \E c \in Callbacks : DelayOver(c)
    \/ \E c \in Callbacks : ExtraDelayOver(c)
    \/ ClockTick

SpecMonitor ==
    InitMonitor /\ [][NextMonitor]_vars

\* C39: however the handle_request callbacks interleave, at most one is
\* inside the body at a time, the callbacks that entered it hold distinct
\* values of request_count, and the times recorded in last_request_time for
\* two consecutive monitored requests are at least 3 seconds apart.
C39_Serialized ==
    /\ Cardinality({c \in Callbacks : mn_pc[c] \in {"sleep", "extra"}}) <= 1
    /\ \A c \in Callbacks : mn_pc[c] \in {"sleep", "extra"} => mn_lock = c
    /\ \A c, d \in Callbacks :
          (c # d /\ mn_count[c] > 0 /\ mn_count[d] > 0) =>
              mn_count[c] # mn_count[d]
    /\ mn_min_gap >= MinGap

\* one callback has recorded its time 3 seconds after the request before it,
\* the next one sleeps inside the body, and a third waits for the lock
C39_Witness ==
    \E c, d, e \in Callbacks :
        /\ mn_pc[c] = "sleep" /\ mn_lock = c
        /\ mn_pc[d] = "acquire"
        /\ mn_pc[e] = "done" /\ mn_count[e] = mn_count[c] - 1
        /\ mn_min_gap = MinGap

====
